---- MODULE Spec2Model ----
(***************************************************************************)
(* Model of robot-gitee-lgtm: the LGTM label robot.                        *)
(*                                                                         *)
(* The persisted state of a pull request is what the forge holds: the      *)
(* list of bot comments (text), the lgtm label, and the head commit.  A    *)
(* comment body is a sequence of tokens: the literal pieces of the         *)
(* template are one token each, a login, a directory and a tree hash are   *)
(* one token each, and the separators ", ", "- " and the bold marker are   *)
(* one token each.  Encoding concatenates tokens as fmt.Sprintf and        *)
(* strings.Join do; decoding locates the literal pieces as the regular     *)
(* expression does and splits on separator tokens as strings.Split does.   *)
(*                                                                         *)
(* An event handler runs start to finish in one step.  Comments written    *)
(* by people are not kept: every scan skips comments whose user is not     *)
(* the bot.                                                                *)
(***************************************************************************)
EXTENDS Naturals, Integers, Sequences, FiniteSets, TLC

VARIABLES
    cfg,        \* repository configuration (fixed for a behaviour)
    prAuthor,   \* login of the pull request's author
    head,       \* head commit of the pull request
    label,      \* TRUE iff the pull request carries the lgtm label
    comments,   \* bot comments of the pull request, in creation order
    prPending,  \* pull-request event not yet handled: "open", "sync", "none"
    inOrder,    \* FALSE once a command was handled before a pending PR event
    last,       \* what the last handled event did
    scenario,   \* progress along end-to-end scenario A / B, -1 when left
    inFlight,   \* the command handlers that run concurrently, step by step
    twin        \* a second run of the same pull request, for comparing two runs

vars == <<cfg, prAuthor, head, label, comments, prPending, inOrder, last, scenario, inFlight, twin>>

----------------------------------------------------------------------------
(* Bounds of the model.                                                    *)

\* at most this many bot comments exist on the pull request
MaxComments == 2
\* at most this many empty entries in a pending-directory list that is written
MaxEmptyDirs == 1

----------------------------------------------------------------------------
(* The world outside the robot.                                            *)

Logins == {"alice", "bob", "Carol", "dave"}
PRAuthors == {"dave"}
BotLogin == "ci-bot"

\* commits the head can point at, and the tree each one has; c3 is a
\* rebase of c1 that leaves the tree untouched
Commits == {"c1", "c2", "c3"}
TreeOf(c) == IF c = "c2" THEN "T2" ELSE "T1"

\* a path is the sequence of its components (at most two here)
FileAX == <<"a", "x.go">>
FileBY == <<"b", "y.go">>
FileReadme == <<"README.md">>
ChangedFilesOf(tree) == IF tree = "T1" THEN {FileAX, FileBY} ELSE {FileAX, FileReadme}

\* OWNERS backend: logins are stored normalized
Approvers(path) ==
    IF path = FileAX THEN {"alice"}
    ELSE IF path = FileReadme THEN {"carol"}
    ELSE {}
Reviewers(path) ==
    IF path = FileBY THEN {"bob"}
    ELSE IF path = FileReadme THEN {"alice"}
    ELSE {}

\* repository collaborators (simple mode)
Collaborators == {"alice", "dave"}

\* github.NormLogin: lower-cases a login (and drops a leading "@")
NormLogin(login) == IF login = "Carol" THEN "carol" ELSE login

----------------------------------------------------------------------------
(* Sequences.                                                              *)

Range(s) == {s[i] : i \in 1..Len(s)}

\* all the orders in which the elements of S can be listed: the order of
\* a Go map iteration is not fixed
RECURSIVE Orderings(_)
Orderings(S) ==
    IF S = {} THEN {<<>>}
    ELSE UNION { {<<x>> \o o : o \in Orderings(S \ {x})} : x \in S }

\* index of the first occurrence of tok in s, 0 when absent
IndexOf(s, tok) ==
    LET hits == {i \in 1..Len(s) : s[i] = tok}
    IN  IF hits = {} THEN 0 ELSE CHOOSE i \in hits : \A j \in hits : i <= j

\* strings.Join(items, sep): items is a sequence of token sequences
RECURSIVE Join(_, _)
Join(items, sep) ==
    IF items = <<>> THEN <<>>
    ELSE IF Len(items) = 1 THEN items[1]
    ELSE items[1] \o <<sep>> \o Join(Tail(items), sep)

\* strings.Split(s, sep): the pieces of s between the occurrences of sep;
\* a separator at the very start yields a first piece that is empty
RECURSIVE Split(_, _)
Split(s, sep) ==
    LET i == IndexOf(s, sep)
    IN  IF i = 0 THEN <<s>>
        ELSE <<SubSeq(s, 1, i - 1)>> \o Split(SubSeq(s, i + 1, Len(s)), sep)

\* strings.Trim(item, "**"): drops every leading and trailing star
RECURSIVE Trim(_)
Trim(item) ==
    IF item = <<>> THEN item
    ELSE IF Head(item) = "**" THEN Trim(Tail(item))
    ELSE IF item[Len(item)] = "**" THEN Trim(SubSeq(item, 1, Len(item) - 1))
    ELSE item

\* the string a sequence of at most one name token stands for
Text(piece) == IF piece = <<>> THEN "" ELSE piece[1]

EmptyMap == [x \in {} |-> TRUE]

\* the tokens of a string that is a name or empty
Tok(str) == IF str = "" THEN <<>> ELSE <<str>>

----------------------------------------------------------------------------
(* notification.go: the status comment and its codec.                      *)

consentientDesc == "**LGTM**"
opposedDesc == "**NOT LGTM**"
separator == ", "
dirSepa == "- "
bold == "**"

\* the literal pieces of notificationStr
TokHead == "LGTM NOTIFIER: This PR is "
TokCons == ". Reviewers added /lgtm are: "
TokOpps == ". Reviewers added /lgtm cancel are: "
TokDirs == ". It still needs review for the codes in each of these directoris:"
TokHash == "<details>Git tree hash: "
TokEnd == "</details>"

notificationStr(r, c, o, s, h) ==
    <<TokHead>> \o r \o <<TokCons>> \o c \o <<TokOpps>> \o o \o <<TokDirs>> \o s
        \o <<TokHash>> \o h \o <<TokEnd>>

\* notificationStrRe.FindStringSubmatch(body): the five groups, or <<>> (nil)
FindStringSubmatch(body) ==
    LET iC == IndexOf(body, TokCons)
        iO == IndexOf(body, TokOpps)
        iD == IndexOf(body, TokDirs)
        iH == IndexOf(body, TokHash)
    IN  IF /\ Len(body) >= 6
           /\ body[1] = TokHead
           /\ 1 < iC /\ iC < iO /\ iO < iD /\ iD < iH
           /\ body[Len(body)] = TokEnd
        THEN << SubSeq(body, 2, iC - 1),
                SubSeq(body, iC + 1, iO - 1),
                SubSeq(body, iO + 1, iD - 1),
                SubSeq(body, iD + 1, iH - 1),
                SubSeq(body, iH + 1, Len(body) - 1) >>
        ELSE <<>>

\* a notification value: the in-memory review state of one event
Notification(c, o, d, h, id) ==
    [consentors |-> c, opponents |-> o, dirs |-> d, treeHash |-> h, commentID |-> id]

ResetConsentor(noti) == [noti EXCEPT !.consentors = EmptyMap]

ResetOpponents(noti) == [noti EXCEPT !.opponents = EmptyMap]

ResetDirs(noti, s) == [noti EXCEPT !.dirs = s]

\* m with key k set to v
MapPut(m, k, v) == [x \in DOMAIN m \cup {k} |-> IF x = k THEN v ELSE m[x]]

\* m without key k
MapDelete(m, k) == [x \in DOMAIN m \ {k} |-> m[x]]

\* a variant of AddConsentor that leaves the consentor among the opponents
AddConsentor_KeepOpponent(noti, consentor, isRev) ==
    [noti EXCEPT !.consentors = MapPut(@, consentor, isRev)]

AddConsentor(noti, consentor, isRev) ==
    [noti EXCEPT !.consentors = MapPut(@, consentor, isRev),
                 !.opponents = MapDelete(@, consentor)]

\* a variant of AddOpponent that forgets to delete the consentor
AddOpponent_NoDelete(noti, opponent, isRev) ==
    [noti EXCEPT !.opponents = MapPut(@, opponent, isRev)]

AddOpponent(noti, opponent, isRev) ==
    [noti EXCEPT !.opponents = MapPut(@, opponent, isRev),
                 !.consentors = MapDelete(@, opponent)]

\* reviewerToComment: one text per iteration order of the map
reviewerToComment(r, sep) ==
    { Join([i \in 1..Len(o) |->
                IF r[o[i]] THEN <<bold, o[i], bold>> ELSE <<o[i]>>], sep)
      : o \in Orderings(DOMAIN r) }

\* commentToReviewer: a later item with the same name overwrites an earlier one
commentToReviewer(s, sep) ==
    IF s # <<>>
    THEN LET a == Split(s, sep)
             key(i) == Text(Trim(a[i]))
             lastOf(k) == CHOOSE i \in 1..Len(a) :
                              key(i) = k /\ \A j \in (i + 1)..Len(a) : key(j) # k
         IN  [k \in {key(i) : i \in 1..Len(a)} |-> a[lastOf(k)] # Trim(a[lastOf(k)])]
    ELSE EmptyMap

\* the closure split of LoadLGTMnotification
split(s, sep) ==
    IF s # <<>>
    THEN LET a == Split(s, sep) IN [i \in 1..Len(a) |-> Text(a[i])]
    ELSE <<>>

\* filepath.Dir
FilepathDir(path) == IF Len(path) = 1 THEN "." ELSE path[1]

\* a variant of genDirs that keeps "." for the files at the root
genDirs_KeepDot(filenames) ==
    Orderings({FilepathDir(n) : n \in filenames})

\* genDirs followed by mapKeys: the directories in some map order
genDirs(filenames) ==
    LET m == {FilepathDir(n) : n \in filenames}
        keys == IF "." \in m THEN (m \ {"."}) \cup {"root directory"} ELSE m
    IN  Orderings(keys)

\* the texts WriteComment can produce for noti and verdict ok
CommentTexts(noti, ok) ==
    LET r == IF ok THEN consentientDesc ELSE opposedDesc
        s == IF noti.dirs # <<>>
             THEN <<dirSepa>> \o Join([i \in 1..Len(noti.dirs) |-> Tok(noti.dirs[i])], dirSepa)
             ELSE <<>>
    IN  { notificationStr(<<r>>, c, o, s, <<noti.treeHash>>)
          : c \in reviewerToComment(noti.consentors, separator),
            o \in reviewerToComment(noti.opponents, separator) }

----------------------------------------------------------------------------
(* The forge: what the calls of ghClient do to the pull request.  A world  *)
(* is the pull request as one handler sees and changes it, with the calls  *)
(* the handler has issued so far.                                          *)

NoNoti == [none |-> TRUE]

\* noti and ok are what the handler last gave to WriteComment, commentID the
\* comment that went to, prChanged what LoadLGTMnotification returned to it;
\* fail names the call of ghClient that fails whenever this handler makes it
\* ("none": every call succeeds), err the call whose error the handler got

World(cs, lb) ==
    [comments |-> cs, label |-> lb, calls |-> <<>>, noti |-> NoNoti, ok |-> FALSE,
     commentID |-> 0, prChanged |-> FALSE, fail |-> "none", err |-> ""]

\* the calls that read from the forge, and the calls that write to it
ReadCalls ==
    {"GetSingleCommit", "BotName", "ListIssueComments", "GetPullRequestChanges",
     "GetPullRequest", "GetIssueLabels", "IsCollaborator"}
WriteCalls == {"CreateComment", "UpdatePRComment", "AddLabel", "RemoveLabel"}

\* a call of the handler came back with an error: the handler returns it
Failed(w, call) == [w EXCEPT !.err = call]

NextID(cs) ==
    IF cs = <<>> THEN 1
    ELSE 1 + (CHOOSE n \in {cs[i].id : i \in 1..Len(cs)} :
                  \A i \in 1..Len(cs) : cs[i].id <= n)

\* gc.CreateComment
CreateComment(w, body) ==
    IF w.fail = "CreateComment"
    THEN Failed([w EXCEPT !.calls = Append(@, "CreateComment")], "CreateComment")
    ELSE [w EXCEPT !.comments = Append(@, [id |-> NextID(w.comments), user |-> BotLogin,
                                           body |-> body, edited |-> FALSE]),
                   !.calls = Append(@, "CreateComment")]

\* gc.UpdatePRComment: the forge stamps the comment as updated
UpdatePRComment(w, commentID, body) ==
    IF w.fail = "UpdatePRComment"
    THEN Failed([w EXCEPT !.calls = Append(@, "UpdatePRComment")], "UpdatePRComment")
    ELSE [w EXCEPT !.comments = [i \in 1..Len(@) |->
                                    IF @[i].id = commentID
                                    THEN [@[i] EXCEPT !.body = body, !.edited = TRUE]
                                    ELSE @[i]],
                   !.calls = Append(@, "UpdatePRComment")]

\* gc.AddLabel
AddLabel(w) ==
    IF w.fail = "AddLabel"
    THEN Failed([w EXCEPT !.calls = Append(@, "AddLabel")], "AddLabel")
    ELSE [w EXCEPT !.label = TRUE, !.calls = Append(@, "AddLabel")]

\* gc.RemoveLabel
RemoveLabel(w) ==
    IF w.fail = "RemoveLabel"
    THEN Failed([w EXCEPT !.calls = Append(@, "RemoveLabel")], "RemoveLabel")
    ELSE [w EXCEPT !.label = FALSE, !.calls = Append(@, "RemoveLabel")]

\* notification.WriteComment: the worlds it can lead to
WriteComment(w, noti, ok) ==
    { LET w1 == IF noti.commentID = 0
                THEN CreateComment(w, body)
                ELSE UpdatePRComment(w, noti.commentID, body)
      IN  [w1 EXCEPT !.noti = noti, !.ok = ok,
                     !.commentID = IF noti.commentID = 0
                                   THEN NextID(w.comments) ELSE noti.commentID]
      : body \in CommentTexts(noti, ok) }

\* a variant of LoadLGTMnotification that keeps the decoded consensus of a
\* comment whose tree hash differs
LoadLGTMnotification_KeepStale(cs, sha, filenames) ==
    LET matching == {i \in 1..Len(cs) :
                        cs[i].user = BotLogin /\ FindStringSubmatch(cs[i].body) # <<>>}
        found == matching # {}
        first == CHOOSE i \in matching : \A j \in matching : i <= j
        m == FindStringSubmatch(cs[first].body)
        id == IF found THEN cs[first].id ELSE 0
    IN  IF found
        THEN { [noti |-> Notification(commentToReviewer(m[2], separator),
                                      commentToReviewer(m[3], separator),
                                      split(m[4], dirSepa), sha, id),
                prChanged |-> Text(m[5]) # sha] }
        ELSE { [noti |-> Notification(EmptyMap, EmptyMap, d, sha, id),
                prChanged |-> TRUE] : d \in genDirs(filenames) }

\* LoadLGTMnotification: the (notification, prChanged) pairs it can return
LoadLGTMnotification(cs, sha, filenames) ==
    LET matching == {i \in 1..Len(cs) :
                        cs[i].user = BotLogin /\ FindStringSubmatch(cs[i].body) # <<>>}
        found == matching # {}
        first == CHOOSE i \in matching : \A j \in matching : i <= j
        m == FindStringSubmatch(cs[first].body)
        id == IF found THEN cs[first].id ELSE 0
    IN  IF found /\ Text(m[5]) = sha
        THEN { [noti |-> Notification(commentToReviewer(m[2], separator),
                                      commentToReviewer(m[3], separator),
                                      split(m[4], dirSepa), sha, id),
                prChanged |-> FALSE] }
        ELSE { [noti |-> Notification(EmptyMap, EmptyMap, d, sha, id),
                prChanged |-> TRUE] : d \in genDirs(filenames) }

----------------------------------------------------------------------------
(* Strict review: part_003.                                                *)

\* getHashTree: the tree hash of the commit
getHashTree(commit) == TreeOf(commit)

\* getChangedFiles: the files the pull request changes at this head
getChangedFiles(commit) == ChangedFilesOf(TreeOf(commit))

\* strictReview.fileReviewers
fileReviewers(filenames) == [f \in filenames |-> Approvers(f) \cup Reviewers(f)]

isReviewer(validReviewers, commenter) ==
    \E f \in DOMAIN validReviewers : NormLogin(commenter) \in validReviewers[f]

\* a variant of canAddLgtmLabel that looks at the directories only
canAddLgtmLabel_IgnoreOpponents(noti) ==
    noti.dirs = <<>>

canAddLgtmLabel(noti) ==
    /\ \A u \in DOMAIN noti.opponents : ~noti.opponents[u]
    /\ noti.dirs = <<>>

\* a variant of resetReviewDir that leaves the directories alone while some
\* file lacks a reviewer
resetReviewDir_KeepDirs(validReviewers, noti) ==
    LET reviewers == {NormLogin(k) : k \in {x \in DOMAIN noti.consentors : noti.consentors[x]}}
        needReview == {f \in DOMAIN validReviewers : validReviewers[f] \cap reviewers = {}}
    IN  IF needReview # {}
        THEN {noti}
        ELSE {ResetDirs(noti, <<>>)}

\* a variant of resetReviewDir that lists the directories of all files as
\* soon as one file lacks a reviewer
resetReviewDir_AllDirs(validReviewers, noti) ==
    LET reviewers == {NormLogin(k) : k \in {x \in DOMAIN noti.consentors : noti.consentors[x]}}
        needReview == {f \in DOMAIN validReviewers : validReviewers[f] \cap reviewers = {}}
    IN  IF needReview # {}
        THEN {ResetDirs(noti, d) : d \in genDirs(DOMAIN validReviewers)}
        ELSE {ResetDirs(noti, <<>>)}

\* resetReviewDir: the notifications it can leave (one per map order)
resetReviewDir(validReviewers, noti) ==
    LET reviewers == {NormLogin(k) : k \in {x \in DOMAIN noti.consentors : noti.consentors[x]}}
        needReview == {f \in DOMAIN validReviewers : validReviewers[f] \cap reviewers = {}}
    IN  IF needReview # {}
        THEN {ResetDirs(noti, d) : d \in genDirs(needReview)}
        ELSE {ResetDirs(noti, <<>>)}

\* the text of a reply to the commenter (FormatResponseRaw); the quoted
\* comment and the mention of the commenter are left out
Response(commenter, resp) == <<resp>>

\* the label calls that end strictReview.handleLGTM
syncLabel(w, ok, hasLabel) ==
    IF w.err # "" THEN w
    ELSE IF ok /\ ~hasLabel THEN AddLabel(w)
    ELSE IF ~ok /\ hasLabel THEN RemoveLabel(w)
    ELSE w

\* a variant of handleLGTMCancel that takes every commenter but the author
\* for a reviewer
handleLGTMCancel_AlwaysReviewer(w, noti, validReviewers, commenter, hasLabel, author) ==
    LET n1 == IF commenter = author
              THEN ResetOpponents(ResetConsentor(noti))
              ELSE AddOpponent(noti, commenter, TRUE)
    IN  UNION { { IF w1.err = "" /\ hasLabel THEN RemoveLabel(w1) ELSE w1
                  : w1 \in WriteComment(w, ResetDirs(n1, d), FALSE) }
                : d \in genDirs(DOMAIN validReviewers) }

\* a variant of handleLGTMCancel that records the author as an opponent
\* instead of resetting the consentors and the opponents
handleLGTMCancel_AuthorAsReviewer(w, noti, validReviewers, commenter, hasLabel, author) ==
    IF commenter # author /\ ~isReviewer(validReviewers, commenter)
    THEN WriteComment(w, AddOpponent(noti, commenter, FALSE), hasLabel)
    ELSE LET n1 == AddOpponent(noti, commenter, TRUE)
         IN  UNION { { IF w1.err = "" /\ hasLabel THEN RemoveLabel(w1) ELSE w1
                       : w1 \in WriteComment(w, ResetDirs(n1, d), FALSE) }
                     : d \in genDirs(DOMAIN validReviewers) }

\* a variant of handleLGTMCancel in which the cancel of a reviewer marks
\* only the directories of the files that reviewer may review
handleLGTMCancel_OnlyOwnDirs(w, noti, validReviewers, commenter, hasLabel, author) ==
    IF commenter # author /\ ~isReviewer(validReviewers, commenter)
    THEN WriteComment(w, AddOpponent(noti, commenter, FALSE), hasLabel)
    ELSE LET n1 == IF commenter = author
                   THEN ResetOpponents(ResetConsentor(noti))
                   ELSE AddOpponent(noti, commenter, TRUE)
             own == IF commenter = author
                    THEN DOMAIN validReviewers
                    ELSE {f \in DOMAIN validReviewers :
                             NormLogin(commenter) \in validReviewers[f]}
         IN  UNION { { IF w1.err = "" /\ hasLabel THEN RemoveLabel(w1) ELSE w1
                       : w1 \in WriteComment(w, ResetDirs(n1, d), FALSE) }
                     : d \in genDirs(own) }

\* a variant of handleLGTMCancel that leaves the directories as loaded
handleLGTMCancel_KeepDirs(w, noti, validReviewers, commenter, hasLabel, author) ==
    IF commenter # author /\ ~isReviewer(validReviewers, commenter)
    THEN WriteComment(w, AddOpponent(noti, commenter, FALSE), hasLabel)
    ELSE LET n1 == IF commenter = author
                   THEN ResetOpponents(ResetConsentor(noti))
                   ELSE AddOpponent(noti, commenter, TRUE)
         IN  { IF w1.err = "" /\ hasLabel THEN RemoveLabel(w1) ELSE w1
               : w1 \in WriteComment(w, n1, FALSE) }

\* strictReview.handleLGTMCancel: the worlds it can end in
handleLGTMCancel(w, noti, validReviewers, commenter, hasLabel, author) ==
    IF commenter # author /\ ~isReviewer(validReviewers, commenter)
    THEN WriteComment(w, AddOpponent(noti, commenter, FALSE), hasLabel)
    ELSE LET n1 == IF commenter = author
                   THEN ResetOpponents(ResetConsentor(noti))
                   ELSE AddOpponent(noti, commenter, TRUE)
         IN  UNION { { IF w1.err = "" /\ hasLabel THEN RemoveLabel(w1) ELSE w1
                       : w1 \in WriteComment(w, ResetDirs(n1, d), FALSE) }
                     : d \in genDirs(DOMAIN validReviewers) }

\* a variant of handleLGTM in which a repeated /lgtm withdraws the approval
handleLGTM_Toggle(w, noti, validReviewers, commenter, hasLabel, author) ==
    IF commenter = author
    THEN {CreateComment(w, Response(commenter, "you cannot LGTM your own PR."))}
    ELSE IF commenter \in DOMAIN noti.consentors
    THEN WriteComment(w, [noti EXCEPT !.consentors = MapDelete(@, commenter)], hasLabel)
    ELSE LET ok == isReviewer(validReviewers, commenter)
             n1 == AddConsentor(noti, commenter, ok)
         IN  IF ~ok
             THEN WriteComment(w, n1, hasLabel)
             ELSE UNION { { syncLabel(w1, canAddLgtmLabel(n2), hasLabel)
                            : w1 \in WriteComment(w, n2, canAddLgtmLabel(n2)) }
                          : n2 \in resetReviewDir(validReviewers, n1) }

\* a variant of handleLGTM that does not single out the author
handleLGTM_NoAuthorCheck(w, noti, validReviewers, commenter, hasLabel, author) ==
    IF commenter \in DOMAIN noti.consentors
    THEN {w}
    ELSE LET ok == isReviewer(validReviewers, commenter)
             n1 == AddConsentor(noti, commenter, ok)
         IN  IF ~ok
             THEN WriteComment(w, n1, hasLabel)
             ELSE UNION { { syncLabel(w1, canAddLgtmLabel(n2), hasLabel)
                            : w1 \in WriteComment(w, n2, canAddLgtmLabel(n2)) }
                          : n2 \in resetReviewDir(validReviewers, n1) }

\* a variant of handleLGTM in which the approve of a login without authority
\* wipes the recorded consentors
handleLGTM_UnauthorizedWipes(w, noti, validReviewers, commenter, hasLabel, author) ==
    IF commenter = author
    THEN {CreateComment(w, Response(commenter, "you cannot LGTM your own PR."))}
    ELSE IF commenter \in DOMAIN noti.consentors
    THEN {w}
    ELSE LET ok == isReviewer(validReviewers, commenter)
             n1 == AddConsentor(noti, commenter, ok)
         IN  IF ~ok
             THEN WriteComment(w, AddConsentor(ResetConsentor(noti), commenter, ok), hasLabel)
             ELSE UNION { { syncLabel(w1, canAddLgtmLabel(n2), hasLabel)
                            : w1 \in WriteComment(w, n2, canAddLgtmLabel(n2)) }
                          : n2 \in resetReviewDir(validReviewers, n1) }

\* a variant of handleLGTM that keeps the latest approver only
handleLGTM_LatestOnly(w, noti, validReviewers, commenter, hasLabel, author) ==
    IF commenter = author
    THEN {CreateComment(w, Response(commenter, "you cannot LGTM your own PR."))}
    ELSE IF commenter \in DOMAIN noti.consentors
    THEN {w}
    ELSE LET ok == isReviewer(validReviewers, commenter)
             n1 == AddConsentor(ResetConsentor(noti), commenter, ok)
         IN  IF ~ok
             THEN WriteComment(w, n1, hasLabel)
             ELSE UNION { { syncLabel(w1, canAddLgtmLabel(n2), hasLabel)
                            : w1 \in WriteComment(w, n2, canAddLgtmLabel(n2)) }
                          : n2 \in resetReviewDir(validReviewers, n1) }

\* strictReview.handleLGTM: the worlds it can end in
handleLGTM(w, noti, validReviewers, commenter, hasLabel, author) ==
    IF commenter = author
    THEN {CreateComment(w, Response(commenter, "you cannot LGTM your own PR."))}
    ELSE IF commenter \in DOMAIN noti.consentors
    THEN {w}
    ELSE LET ok == isReviewer(validReviewers, commenter)
             n1 == AddConsentor(noti, commenter, ok)
         IN  IF ~ok
             THEN WriteComment(w, n1, hasLabel)
             ELSE UNION { { syncLabel(w1, canAddLgtmLabel(n2), hasLabel)
                            : w1 \in WriteComment(w, n2, canAddLgtmLabel(n2)) }
                          : n2 \in resetReviewDir(validReviewers, n1) }

\* the call of LoadLGTMnotification that comes back with an error when call
\* fail fails, "" when none does: the bot's name and the comments are always
\* asked for, the changed files only when no comment of this tree is found
loadError(fail, prChanged) ==
    IF fail \in {"BotName", "ListIssueComments"} THEN fail
    ELSE IF prChanged /\ fail = "GetPullRequestChanges" THEN fail
    ELSE ""

\* the call of strictReview.fileReviewers that comes back with an error
fileReviewersError(fail) ==
    IF fail \in {"GetPullRequest", "GetPullRequestChanges"} THEN fail ELSE ""

\* what fileReviewers returns while the lookups of the OWNERS client fail:
\* Approvers and Reviewers log the error and answer with the empty set
fileReviewersNoOwners(filenames) == [f \in filenames |-> {}]

\* a variant of HandleStrictLGTMComment that asks for the labels only when
\* the command has been handled as if the label were absent
HandleStrictLGTMComment_LabelsLast(w0, commit, author, commenter, wantLGTM) ==
    LET sha == getHashTree(commit)
        filenames == getChangedFiles(commit)
        validReviewers == IF w0.fail = "Approvers"
                          THEN fileReviewersNoOwners(filenames)
                          ELSE fileReviewers(filenames)
        w(ld) == [w0 EXCEPT !.prChanged = ld.prChanged]
    IN  IF w0.fail = "GetSingleCommit" THEN {Failed(w0, w0.fail)}
        ELSE UNION {
            IF loadError(w0.fail, ld.prChanged) # ""
            THEN {Failed(w0, w0.fail)}
            ELSE IF fileReviewersError(w0.fail) # ""
            THEN {Failed(w0, w0.fail)}
            ELSE { IF w0.fail = "GetIssueLabels" /\ w1.err = ""
                   THEN Failed(w1, w0.fail) ELSE w1
                   : w1 \in IF ~wantLGTM
                            THEN handleLGTMCancel(w(ld), ld.noti, validReviewers, commenter,
                                                  w0.label /\ w0.fail # "GetIssueLabels", author)
                            ELSE handleLGTM(w(ld), ld.noti, validReviewers, commenter,
                                            w0.label /\ w0.fail # "GetIssueLabels", author) }
            : ld \in LoadLGTMnotification(w0.comments, sha, filenames) }

\* HandleStrictLGTMComment: the worlds it can end in
HandleStrictLGTMComment(w0, commit, author, commenter, wantLGTM) ==
    LET sha == getHashTree(commit)
        filenames == getChangedFiles(commit)
        validReviewers == IF w0.fail = "Approvers"
                          THEN fileReviewersNoOwners(filenames)
                          ELSE fileReviewers(filenames)
        hasLGTM == w0.label
        w(ld) == [w0 EXCEPT !.prChanged = ld.prChanged]
    IN  IF w0.fail = "GetSingleCommit" THEN {Failed(w0, w0.fail)}
        ELSE UNION {
            IF loadError(w0.fail, ld.prChanged) # ""
            THEN {Failed(w0, w0.fail)}
            ELSE IF fileReviewersError(w0.fail) # ""
            THEN {Failed(w0, w0.fail)}
            ELSE IF w0.fail = "GetIssueLabels"
            THEN {Failed(w0, w0.fail)}
            ELSE IF ~wantLGTM
            THEN handleLGTMCancel(w(ld), ld.noti, validReviewers, commenter, hasLGTM, author)
            ELSE handleLGTM(w(ld), ld.noti, validReviewers, commenter, hasLGTM, author)
            : ld \in LoadLGTMnotification(w0.comments, sha, filenames) }

\* a variant of HandleStrictLGTMPREvent whose synchronize never touches the label
HandleStrictLGTMPREvent_KeepLabel(w0, commit, action) ==
    LET sha == getHashTree(commit)
        filenames == getChangedFiles(commit)
    IN  IF w0.fail = "GetSingleCommit" THEN {Failed(w0, w0.fail)}
        ELSE IF action = "open"
        THEN IF w0.fail = "GetPullRequestChanges" THEN {Failed(w0, w0.fail)}
             ELSE UNION { WriteComment(w0, Notification(EmptyMap, EmptyMap, d, sha, 0), FALSE)
                          : d \in genDirs(filenames) }
        ELSE IF action = "sync"
        THEN UNION { IF loadError(w0.fail, ld.prChanged) # ""
                     THEN {Failed(w0, w0.fail)}
                     ELSE IF ~ld.prChanged
                     THEN {w0}
                     ELSE WriteComment([w0 EXCEPT !.prChanged = TRUE], ld.noti, FALSE)
                     : ld \in LoadLGTMnotification(w0.comments, sha, filenames) }
        ELSE {w0}

\* HandleStrictLGTMPREvent: the worlds it can end in
HandleStrictLGTMPREvent(w0, commit, action) ==
    LET sha == getHashTree(commit)
        filenames == getChangedFiles(commit)
    IN  IF w0.fail = "GetSingleCommit" THEN {Failed(w0, w0.fail)}
        ELSE IF action = "open"
        THEN IF w0.fail = "GetPullRequestChanges" THEN {Failed(w0, w0.fail)}
             ELSE UNION { WriteComment(w0, Notification(EmptyMap, EmptyMap, d, sha, 0), FALSE)
                          : d \in genDirs(filenames) }
        ELSE IF action = "sync"
        THEN UNION { IF loadError(w0.fail, ld.prChanged) # ""
                     THEN {Failed(w0, w0.fail)}
                     ELSE IF ~ld.prChanged
                     THEN {w0}
                     ELSE { IF w1.err = "" THEN RemoveLabel(w1) ELSE w1
                            : w1 \in WriteComment([w0 EXCEPT !.prChanged = TRUE],
                                                  ld.noti, FALSE) }
                     : ld \in LoadLGTMnotification(w0.comments, sha, filenames) }
        ELSE {w0}

----------------------------------------------------------------------------
(* Simple mode: part_000 (package lgtm).                                   *)

\* the literal piece of addLGTMLabelNotification before the tree hash
TokAdded == "LGTM label has been added.  <details>Git tree hash: "
removeLGTMLabelNoti == "New changes are detected. LGTM label has been removed."

addLGTMLabelNotification(treeHash) == <<TokAdded>> \o Tok(treeHash) \o <<TokEnd>>

\* addLGTMLabelNotificationRe.FindStringSubmatch(body): <<whole, hash>> or <<>>
FindTreeHashSubmatch(body) ==
    IF Len(body) >= 2 /\ body[1] = TokAdded /\ body[Len(body)] = TokEnd
    THEN <<body, SubSeq(body, 2, Len(body) - 1)>>
    ELSE <<>>

\* gc.AssignIssue
AssignIssue(w) == [w EXCEPT !.calls = Append(@, "AssignIssue")]

\* commentPruner.PruneComments: deletes the bot's comments among those that
\* shouldPrune accepts; it prunes nothing when it cannot list the comments
PruneComments(w, shouldPrune) ==
    LET pruned(c) == c.user = BotLogin /\ c \in shouldPrune
        n == Cardinality({i \in 1..Len(w.comments) : pruned(w.comments[i])})
    IN  IF w.fail \in {"BotName", "ListIssueComments"} THEN w
        ELSE [w EXCEPT !.comments = SelectSeq(@, LAMBDA c : ~pruned(c)),
                       !.calls = @ \o [i \in 1..n |-> "DeleteComment"]]

\* ghClient.ListTeams and ListTeamMembers of this robot return nothing
ListTeams == {}
ListTeamMembers(team) == {}

stickyLgtm(author) ==
    /\ cfg.stickyLgtmTeam # ""
    /\ \E teamInOrg \in ListTeams :
          /\ teamInOrg = cfg.stickyLgtmTeam
          /\ author \in ListTeamMembers(teamInOrg)

\* loadReviewers
loadReviewers(filenames) == UNION {Approvers(f) \cup Reviewers(f) : f \in filenames}

\* the tree hash handle and handlePullRequest go on with: the error of
\* GetSingleCommit is logged and the hash of the empty commit is used
treeHashOrEmpty(w, commit) ==
    IF w.fail = "GetSingleCommit" THEN "" ELSE getHashTree(commit)

\* the label update that ends handle; the error of GetIssueLabels is logged
\* and the label taken to be absent, the error of the marker comment is
\* logged, and a pull request that cannot be fetched stops the handler
updateLabel(w, wantLGTM, issueAuthor, commit) ==
    LET hasLGTM == w.label /\ w.fail # "GetIssueLabels"
    IN  IF hasLGTM /\ ~wantLGTM
        THEN LET w1 == RemoveLabel(w)
             IN  IF w1.err # "" THEN w1
                 ELSE IF cfg.storeTreeHash
                 THEN PruneComments(w1, {c \in Range(w1.comments) :
                                             FindTreeHashSubmatch(c.body) # <<>>})
                 ELSE w1
        ELSE IF ~hasLGTM /\ wantLGTM
        THEN LET w1 == AddLabel(w)
             IN  IF w1.err # "" THEN w1
                 ELSE IF ~stickyLgtm(issueAuthor)
                 THEN IF cfg.storeTreeHash /\ w1.fail = "GetPullRequest"
                      THEN Failed(w1, w1.fail)
                      ELSE LET w2 == IF cfg.storeTreeHash
                                     THEN [CreateComment(w1, addLGTMLabelNotification(
                                                                 treeHashOrEmpty(w1, commit)))
                                              EXCEPT !.err = ""]
                                     ELSE w1
                           IN  PruneComments(w2, {c \in Range(w2.comments) :
                                                      removeLGTMLabelNoti \in Range(c.body)})
                 ELSE w1
        ELSE w

\* a variant of handle that does not look at the OWNERS files
handle_NoOwnersCheck(w, wantLGTM, author, issueAuthor, isAssignee, commit) ==
    LET isAuthor == author = issueAuthor
        isCollaborator == author \in Collaborators
    IN  IF isAuthor /\ wantLGTM
        THEN CreateComment(w, Response(author, "you cannot LGTM your own PR."))
        ELSE IF ~isAuthor /\ ~cfg.skipCollaborators /\ ~isCollaborator
        THEN CreateComment(w, Response(author, "changing LGTM is restricted to collaborators"))
        ELSE IF ~isAuthor /\ ~isAssignee /\ ~cfg.skipCollaborators
        THEN updateLabel(AssignIssue(w), wantLGTM, issueAuthor, commit)
        ELSE updateLabel(w, wantLGTM, issueAuthor, commit)

\* handle: the world it ends in
handle(w, wantLGTM, author, issueAuthor, isAssignee, commit) ==
    LET isAuthor == author = issueAuthor
        isCollaborator == author \in Collaborators
        reviewers == IF w.fail = "Approvers" THEN {}
                     ELSE loadReviewers(getChangedFiles(commit))
    IN  IF isAuthor /\ wantLGTM
        THEN CreateComment(w, Response(author, "you cannot LGTM your own PR."))
        ELSE IF w.fail = "IsCollaborator"
        THEN Failed(w, w.fail)
        ELSE IF ~isAuthor /\ ~cfg.skipCollaborators /\ ~isCollaborator
        THEN CreateComment(w, Response(author, "changing LGTM is restricted to collaborators"))
        ELSE IF ~isAuthor /\ ~isAssignee /\ ~cfg.skipCollaborators
        THEN updateLabel(AssignIssue(w), wantLGTM, issueAuthor, commit)
        ELSE IF ~isAuthor /\ cfg.skipCollaborators
                /\ w.fail \in {"GetPullRequest", "GetPullRequestChanges"}
        THEN Failed(w, w.fail)
        ELSE IF ~isAuthor /\ cfg.skipCollaborators /\ NormLogin(author) \notin reviewers
        THEN CreateComment(w, Response(author,
                 "adding LGTM is restricted to approvers and reviewers in OWNERS files."))
        ELSE updateLabel(w, wantLGTM, issueAuthor, commit)

\* the hash of the last tree-hash comment of the bot that was never edited, or ""
lastLgtmTreeHash(cs) ==
    LET ok == {i \in 1..Len(cs) :
                  /\ cs[i].user = BotLogin
                  /\ FindTreeHashSubmatch(cs[i].body) # <<>>
                  /\ ~cs[i].edited}
    IN  IF ok = {} THEN ""
        ELSE Text(FindTreeHashSubmatch(cs[CHOOSE i \in ok : \A j \in ok : j <= i].body)[2])

\* what handlePullRequest takes for the last recorded tree hash: the error
\* of ListIssueComments is logged and no comment is looked at
lastHashOrEmpty(w) ==
    IF w.fail = "ListIssueComments" THEN "" ELSE lastLgtmTreeHash(w.comments)

\* a variant of handlePullRequest that does not compare tree hashes
handlePullRequest_NoHashCheck(w, action, issueAuthor, commit) ==
    IF action # "sync" THEN w
    ELSE IF stickyLgtm(issueAuthor) THEN w
    ELSE IF ~(w.label /\ w.fail # "GetIssueLabels") THEN w
    ELSE IF cfg.storeTreeHash /\ w.fail = "BotName" THEN Failed(w, w.fail)
    ELSE LET w1 == RemoveLabel(w)
         IN  IF w1.err # "" THEN w1 ELSE CreateComment(w1, <<removeLGTMLabelNoti>>)

\* handlePullRequest: the world it ends in
handlePullRequest(w, action, issueAuthor, commit) ==
    IF action # "sync" THEN w
    ELSE IF stickyLgtm(issueAuthor) THEN w
    ELSE IF ~(w.label /\ w.fail # "GetIssueLabels") THEN w
    ELSE IF cfg.storeTreeHash /\ w.fail = "BotName" THEN Failed(w, w.fail)
    ELSE IF /\ cfg.storeTreeHash
            /\ lastHashOrEmpty(w) # ""
            /\ treeHashOrEmpty(w, commit) = lastHashOrEmpty(w)
    THEN w
    ELSE LET w1 == RemoveLabel(w)
         IN  IF w1.err # "" THEN w1 ELSE CreateComment(w1, <<removeLGTMLabelNoti>>)

----------------------------------------------------------------------------
(* The state machine.                                                      *)

\* robot.handleNoteEvent / handlePREvent: which engine handles the event
Strict == cfg.skipCollaborators /\ cfg.strictReview

\* strict review, and simple mode with and without the OWNERS check and the
\* tree-hash comment
Configs ==
    { [strictReview |-> TRUE, skipCollaborators |-> TRUE, storeTreeHash |-> FALSE,
       stickyLgtmTeam |-> ""] }
    \cup { [strictReview |-> FALSE, skipCollaborators |-> sc, storeTreeHash |-> st,
            stickyLgtmTeam |-> ""] : sc \in BOOLEAN, st \in BOOLEAN }

\* a handler's result stays within the bounds of the model
Bounded(w) ==
    /\ Len(w.comments) <= MaxComments
    /\ w.noti # NoNoti =>
          Cardinality({i \in 1..Len(w.noti.dirs) : w.noti.dirs[i] = ""}) <= MaxEmptyDirs

Last(op, actor, hasLabel, w) ==
    [op |-> op, actor |-> actor, hasLabel |-> hasLabel, calls |-> w.calls,
     noti |-> w.noti, ok |-> w.ok, commentID |-> w.commentID, prChanged |-> w.prChanged,
     fail |-> w.fail, err |-> w.err]

Init ==
    /\ cfg \in Configs
    /\ prAuthor \in PRAuthors
    /\ head = "c1"
    /\ label = FALSE
    /\ comments = <<>>
    /\ prPending = "open"
    /\ inOrder = TRUE
    /\ last = Last("none", "", FALSE, World(<<>>, FALSE))
    /\ scenario = 0
    /\ inFlight = <<>>
    /\ twin = <<>>

\* the author pushes: the head moves to another commit
Push(c) ==
    /\ prPending = "none"
    /\ c # head
    /\ head' = c
    /\ prPending' = "sync"
    /\ last' = Last("push", "", label, World(comments, label))
    /\ scenario' = IF Strict THEN -1 ELSE scenario
    /\ UNCHANGED <<cfg, prAuthor, label, comments, inOrder, inFlight, twin>>

\* the pull request event of strict mode is handled
StrictPREvent ==
    /\ Strict
    /\ prPending # "none"
    /\ \E w \in HandleStrictLGTMPREvent(World(comments, label), head, prPending) :
          /\ Bounded(w)
          /\ comments' = w.comments
          /\ label' = w.label
          /\ last' = Last(prPending, "", label, w)
    /\ prPending' = "none"
    /\ scenario' = IF scenario = 0 /\ prPending = "open" /\ prAuthor = "dave" THEN 1 ELSE -1
    /\ UNCHANGED <<cfg, prAuthor, head, inOrder, inFlight, twin>>

\* a /lgtm (wantLGTM) or /lgtm cancel comment of commenter is handled in strict mode
StrictComment(commenter, wantLGTM) ==
    /\ Strict
    /\ \E w \in HandleStrictLGTMComment(World(comments, label), head, prAuthor, commenter, wantLGTM) :
          /\ Bounded(w)
          /\ comments' = w.comments
          /\ label' = w.label
          /\ last' = Last(IF wantLGTM THEN "approve" ELSE "cancel", commenter, label, w)
    /\ inOrder' = (inOrder /\ prPending = "none")
    /\ scenario' = IF scenario = 1 /\ commenter = "alice" /\ wantLGTM THEN 2
                   ELSE IF scenario = 2 /\ commenter = "bob" /\ wantLGTM THEN 3
                   ELSE IF scenario = 3 /\ commenter = "bob" /\ ~wantLGTM THEN 4
                   ELSE -1
    /\ UNCHANGED <<cfg, prAuthor, head, prPending, inFlight, twin>>

\* the pull request event is handled in simple mode
SimplePREvent ==
    /\ ~Strict
    /\ prPending # "none"
    /\ LET w == handlePullRequest(World(comments, label), prPending, prAuthor, head)
       IN  /\ Bounded(w)
           /\ comments' = w.comments
           /\ label' = w.label
           /\ last' = Last(prPending, "", label, w)
    /\ prPending' = "none"
    /\ UNCHANGED <<cfg, prAuthor, head, inOrder, scenario, inFlight, twin>>

\* a /lgtm or /lgtm cancel comment of commenter is handled in simple mode
SimpleComment(commenter, wantLGTM, isAssignee) ==
    /\ ~Strict
    /\ LET w == handle(World(comments, label), wantLGTM, commenter, prAuthor, isAssignee, head)
       IN  /\ Bounded(w)
           /\ comments' = w.comments
           /\ label' = w.label
           /\ last' = Last(IF wantLGTM THEN "approve" ELSE "cancel", commenter, label, w)
    /\ inOrder' = (inOrder /\ prPending = "none")
    /\ UNCHANGED <<cfg, prAuthor, head, prPending, scenario, inFlight, twin>>

Next ==
    \/ \E c \in Commits : Push(c)
    \/ StrictPREvent
    \/ \E u \in Logins, wantLGTM \in BOOLEAN : StrictComment(u, wantLGTM)
    \/ SimplePREvent
    \/ \E u \in Logins, wantLGTM \in BOOLEAN, isAssignee \in BOOLEAN :
          SimpleComment(u, wantLGTM, isAssignee)

Spec == Init /\ [][Next]_vars

----------------------------------------------------------------------------
(* robot.go: which comments are commands.  A comment body is a sequence of *)
(* lines, a line a sequence of words and blanks.                           *)

Blanks == {" ", "TAB"}

\* the lower-case form of a word ((?i) of the two patterns)
ToLower(word) ==
    IF word = "/LGTM" THEN "/lgtm"
    ELSE IF word = "Cancel" THEN "cancel"
    ELSE word

\* the line without its trailing blanks, in lower case
RECURSIVE Stripped(_)
Stripped(line) ==
    IF line # <<>> /\ line[Len(line)] \in Blanks
    THEN Stripped(SubSeq(line, 1, Len(line) - 1))
    ELSE [i \in 1..Len(line) |-> ToLower(line[i])]

\* a variant of LGTMRe that is not anchored: /lgtm anywhere in a line
LGTMRe_Unanchored(comment) ==
    \E i \in 1..Len(comment) :
        \E j \in 1..Len(comment[i]) : ToLower(comment[i][j]) = "/lgtm"

\* LGTMRe.MatchString: some line is /lgtm or /lgtm no-issue
LGTMRe(comment) ==
    \E i \in 1..Len(comment) :
        Stripped(comment[i]) \in {<<"/lgtm">>, <<"/lgtm", " ", "no-issue">>}

\* LGTMCancelRe.MatchString: some line is /lgtm cancel
LGTMCancelRe(comment) ==
    \E i \in 1..Len(comment) : Stripped(comment[i]) = <<"/lgtm", " ", "cancel">>

doWhat(comment) ==
    IF LGTMRe(comment) THEN [toAdd |-> TRUE, toRemove |-> FALSE]
    ELSE IF LGTMCancelRe(comment) THEN [toAdd |-> FALSE, toRemove |-> TRUE]
    ELSE [toAdd |-> FALSE, toRemove |-> FALSE]

\* the comment bodies people write in the model
NoteBodies ==
    { << <<"/LGTM", " ", "TAB">> >>,
      << <<"/lgtm", " ", "no-issue">> >>,
      << <<"thanks">>, <<"/lgtm", " ", "Cancel", " ">> >>,
      << <<"lgtm">> >>,
      << <<"/lgtm", " ", "please">> >>,
      << <<"not", " ", "/lgtm">> >>,
      << <<"/lgtm", "TAB", "cancel">> >>,
      << >> }

----------------------------------------------------------------------------
(* The state machine with calls that fail and comments of any text.  One   *)
(* call of ghClient (or the lookups of the OWNERS client) may be failing   *)
(* while an event is handled.                                              *)

\* the teams of the organisation on the forge, and their members
TrustedTeam == "trusted"
OrgTeamMembers(team) == IF team = TrustedTeam THEN {"dave"} ELSE {}

\* the calls that are made to fail: the five fetches of a strict-mode event
\* and the four writes
Faults ==
    {"none", "GetSingleCommit", "ListIssueComments", "GetPullRequestChanges",
     "GetPullRequest", "GetIssueLabels"} \cup WriteCalls

\* the people who comment
FaultLogins == {"alice", "bob"}

FaultConfigs ==
    { [strictReview |-> TRUE, skipCollaborators |-> TRUE, storeTreeHash |-> FALSE,
       stickyLgtmTeam |-> ""],
      [strictReview |-> FALSE, skipCollaborators |-> FALSE, storeTreeHash |-> TRUE,
       stickyLgtmTeam |-> TrustedTeam] }

InitFaults ==
    /\ cfg \in FaultConfigs
    /\ prAuthor \in PRAuthors
    /\ head = "c1"
    /\ label = FALSE
    /\ comments = <<>>
    /\ prPending = "open"
    /\ inOrder = TRUE
    /\ last = Last("none", "", FALSE, World(<<>>, FALSE))
    /\ scenario = -1
    /\ inFlight = <<>>
    /\ twin = <<>>

\* robot.handlePREvent with call fail failing
PREvent(fail) ==
    /\ prPending # "none"
    /\ \E w \in IF Strict
                THEN HandleStrictLGTMPREvent([World(comments, label) EXCEPT !.fail = fail],
                                             head, prPending)
                ELSE {handlePullRequest([World(comments, label) EXCEPT !.fail = fail],
                                        prPending, prAuthor, head)} :
          /\ Bounded(w)
          /\ comments' = w.comments
          /\ label' = w.label
          /\ last' = Last(prPending, "", label, w)
    /\ prPending' = "none"
    /\ UNCHANGED <<cfg, prAuthor, head, inOrder, scenario, inFlight, twin>>

\* robot.handleNoteEvent, events being handled in the order of delivery: a
\* comment that is no command is dropped before any call is made; while a
\* command is handled in strict mode, one call may be failing
NoteEvent(commenter, comment) ==
    /\ prPending = "none"
    /\ LET d == doWhat(comment)
           command == d.toAdd \/ d.toRemove
       IN  \E fail \in IF command /\ Strict THEN Faults ELSE {"none"},
              isAssignee \in IF command /\ ~Strict THEN BOOLEAN ELSE {FALSE} :
             \E w \in IF ~command
                      THEN {World(comments, label)}
                      ELSE IF Strict
                      THEN HandleStrictLGTMComment(
                               [World(comments, label) EXCEPT !.fail = fail],
                               head, prAuthor, commenter, d.toAdd)
                      ELSE {handle([World(comments, label) EXCEPT !.fail = fail],
                                   d.toAdd, commenter, prAuthor, isAssignee, head)} :
                /\ Bounded(w)
                /\ comments' = w.comments
                /\ label' = w.label
                /\ last' = Last(IF d.toAdd THEN "approve"
                                ELSE IF d.toRemove THEN "cancel" ELSE "note",
                                commenter, label, w)
    /\ UNCHANGED <<cfg, prAuthor, head, prPending, inOrder, scenario, inFlight, twin>>

NextFaults ==
    \/ \E c \in Commits : Push(c)
    \/ \E fail \in Faults : PREvent(fail)
    \/ \E u \in FaultLogins, comment \in NoteBodies : NoteEvent(u, comment)

SpecFaults == InitFaults /\ [][NextFaults]_vars

----------------------------------------------------------------------------
(* The persisted review state, as the next event will read it.             *)

\* the bot comments that match the status template
StatusComments ==
    {i \in 1..Len(comments) :
        comments[i].user = BotLogin /\ FindStringSubmatch(comments[i].body) # <<>>}

HasStatus == StatusComments # {}

\* the comment LoadLGTMnotification stops at
LocatedIdx == CHOOSE i \in StatusComments : \A j \in StatusComments : i <= j

\* what the groups of a matching body decode to
Decode(body) ==
    LET m == FindStringSubmatch(body)
    IN  [verdict |-> Text(m[1]),
         consentors |-> commentToReviewer(m[2], separator),
         opponents |-> commentToReviewer(m[3], separator),
         dirs |-> split(m[4], dirSepa),
         treeHash |-> Text(m[5])]

Persisted == Decode(comments[LocatedIdx].body)

\* the comment the last handler wrote its notification to
WrittenIdx == CHOOSE i \in 1..Len(comments) : comments[i].id = last.commentID

AuthorizedFor(f) == Approvers(f) \cup Reviewers(f)

----------------------------------------------------------------------------
(* Claims.                                                                 *)

\* C1: strict mode, events handled one at a time in delivery order, label
\* changed by the robot only: whenever the label is present the status
\* comment carries the fingerprint of the head, every changed file has an
\* authorized identity recorded as an authorized consentor, and no opponent
\* is recorded with flag true.
C1_LabelImpliesReviewed ==
    (Strict /\ inOrder /\ prPending = "none" /\ label) =>
        /\ HasStatus
        /\ Persisted.treeHash = TreeOf(head)
        /\ \A f \in ChangedFilesOf(TreeOf(head)) :
              \E u \in DOMAIN Persisted.consentors :
                  Persisted.consentors[u] /\ NormLogin(u) \in AuthorizedFor(f)
        /\ \A u \in DOMAIN Persisted.opponents : ~Persisted.opponents[u]

\* the label survived a synchronize event that was handled in order
C1_Witness ==
    Strict /\ inOrder /\ prPending = "none" /\ label /\ last.op = "sync"

\* C2: no identity is a key of both the consentors and the opponents of a
\* persisted review state.
C2_MutualExclusion ==
    \A i \in StatusComments :
        DOMAIN Decode(comments[i].body).consentors
            \cap DOMAIN Decode(comments[i].body).opponents = {}

\* a cancel was recorded while somebody else is still a consentor
C2_Witness ==
    /\ Strict /\ HasStatus
    /\ last.op = "cancel"
    /\ last.actor \in DOMAIN Persisted.opponents
    /\ Persisted.consentors # EmptyMap

\* C3: decoding the text WriteComment produced from a review state and a
\* verdict yields the consentors, the opponents, the set of pending
\* directories and the fingerprint of that review state.
C3_RoundTrip ==
    (last.noti # NoNoti) =>
        LET d == Decode(comments[WrittenIdx].body)
        IN  /\ d.consentors = last.noti.consentors
            /\ d.opponents = last.noti.opponents
            /\ Range(d.dirs) = Range(last.noti.dirs)
            /\ d.treeHash = last.noti.treeHash

\* C4: handling the approve of an authorized identity that is not the author
\* twice in a row on an unchanged head leaves, the second time, consentors,
\* opponents, pending directories and label as the first time left them.
C4_ApproveIdempotent ==
    [][ ( /\ Strict
          /\ last.op = "approve" /\ last'.op = "approve"
          /\ last'.actor = last.actor
          /\ last.actor # prAuthor
          /\ isReviewer(fileReviewers(getChangedFiles(head)), last.actor) )
        => ( /\ HasStatus /\ HasStatus'
             /\ LocatedIdx' = LocatedIdx
             /\ \A i \in {LocatedIdx} :
                   \A before \in {Decode(comments[i].body)},
                      after \in {Decode(comments'[i].body)} :
                       /\ after = before
                       /\ last.actor \in DOMAIN before.consentors
             /\ label' = label ) ]_vars

\* an authorized approve was handled and changed nothing: the actor was
\* already recorded
C4_Witness ==
    /\ Strict
    /\ last.op = "approve" /\ last.calls = <<>>
    /\ last.actor # prAuthor
    /\ isReviewer(fileReviewers(getChangedFiles(head)), last.actor)
    /\ Persisted.consentors = [u \in {last.actor} |-> TRUE]

\* C5: an approve of the author changes neither the label nor any existing
\* comment (so consentors, opponents and pending directories stay); its
\* one effect is one new refusal comment.
C5_SelfApprovalRejected ==
    [][ (last'.op = "approve" /\ last'.actor = prAuthor)
        => ( /\ label' = label
             /\ comments' = Append(comments,
                    [id |-> NextID(comments), user |-> BotLogin, edited |-> FALSE,
                     body |-> Response(prAuthor, "you cannot LGTM your own PR.")])
             /\ FindStringSubmatch(comments'[Len(comments')].body) = <<>>
             /\ last'.calls = <<"CreateComment">> ) ]_vars

\* the author was refused while the label is present
C5_Witness ==
    /\ Strict /\ label
    /\ last.op = "approve" /\ last.actor = prAuthor
    /\ last.calls = <<"CreateComment">>

\* the located status comment records another tree than the head's
Stale ==
    \E i \in StatusComments :
        /\ \A j \in StatusComments : i <= j
        /\ \E m \in {FindStringSubmatch(comments[i].body)} : Text(m[5]) # getHashTree(head)

\* the directories of the files changed at the head
DirsOfHead ==
    {IF FilepathDir(f) = "." THEN "root directory" ELSE FilepathDir(f)
     : f \in getChangedFiles(head)}

\* C6: whenever an event is handled in strict mode while the located status
\* comment carries another fingerprint than the head, the state the handler
\* starts from has no consentors, no opponents and the directories of all
\* changed files; and what a handler that found the pull request changed
\* writes carries the head's fingerprint and no approval or objection but
\* the actor's own.
C6_Staleness ==
    Strict =>
        /\ Stale =>
              \A ld \in LoadLGTMnotification(comments, getHashTree(head), getChangedFiles(head)) :
                  /\ ld.prChanged
                  /\ ld.noti.consentors = EmptyMap
                  /\ ld.noti.opponents = EmptyMap
                  /\ Range(ld.noti.dirs) = DirsOfHead
                  /\ Len(ld.noti.dirs) = Cardinality(DirsOfHead)
        /\ (last.prChanged /\ last.noti # NoNoti) =>
              /\ last.noti.treeHash = getHashTree(head)
              /\ DOMAIN last.noti.consentors \cup DOMAIN last.noti.opponents
                    \subseteq {last.actor}
              /\ \A after \in {Decode(comments[WrittenIdx].body)} :
                     /\ after.treeHash = getHashTree(head)
                     /\ DOMAIN after.consentors \cup DOMAIN after.opponents
                           \subseteq {last.actor}

\* a command was handled on the new tree before the synchronize event, and
\* the status comment now records the new tree
C6_Witness ==
    /\ Strict /\ HasStatus
    /\ prPending = "sync" /\ getHashTree(head) = "T2"
    /\ last.op \in {"approve", "cancel"} /\ last.noti # NoNoti /\ last.prChanged
    /\ last.noti.treeHash = "T2" /\ Persisted.treeHash = "T2"
    /\ DOMAIN last.noti.consentors \cup DOMAIN last.noti.opponents = {last.actor}

\* the latest status comment of the bot
LatestStatusIdx == CHOOSE i \in StatusComments : \A j \in StatusComments : j <= i

\* the bot's tree-hash marker comments
MarkerComments ==
    {i \in 1..Len(comments) :
        comments[i].user = BotLogin /\ FindTreeHashSubmatch(comments[i].body) # <<>>}

\* the tree hash of the latest marker comment
LatestMarkerHash ==
    Text(FindTreeHashSubmatch(
             comments[CHOOSE i \in MarkerComments : \A j \in MarkerComments : j <= i].body)[2])

\* the invalidation notice is the one new comment
NoticePosted ==
    comments' = Append(comments, [id |-> NextID(comments), user |-> BotLogin,
                                  body |-> <<removeLGTMLabelNoti>>, edited |-> FALSE])

\* the status comment with index i is rewritten as NOT LGTM, no consentors,
\* no opponents, for the head's tree
RewrittenCleared(i) ==
    /\ Len(comments') = Len(comments)
    /\ \A after \in {Decode(comments'[i].body)} :
           /\ after.verdict = opposedDesc
           /\ after.consentors = EmptyMap
           /\ after.opponents = EmptyMap
           /\ after.treeHash = getHashTree(head)

\* C7 as stated: a synchronize event changes neither label nor comments
\* when the head's fingerprint equals the one of the latest marker or status
\* comment; when it differs, it removes the label and posts the notice
\* (simple mode) or rewrites the status comment as NOT LGTM with cleared
\* consensus (strict mode).
C7_AsStated ==
    [][ (last'.op = "sync") =>
          /\ (~Strict /\ MarkerComments # {}) =>
                IF LatestMarkerHash = getHashTree(head)
                THEN label' = label /\ comments' = comments
                ELSE ~label' /\ NoticePosted
          /\ (Strict /\ HasStatus) =>
                \A i \in {LatestStatusIdx} :
                    IF Decode(comments[i].body).treeHash = getHashTree(head)
                    THEN label' = label /\ comments' = comments
                    ELSE ~label' /\ RewrittenCleared(i) ]_vars

\* C7, amended: in simple mode the differing case acts only when the label
\* is present (otherwise nothing changes), and in strict mode the statement
\* is about a pull request with one status comment.
C7_Synchronize ==
    [][ (last'.op = "sync") =>
          /\ (~Strict /\ MarkerComments # {}) =>
                IF LatestMarkerHash = getHashTree(head) \/ ~label
                THEN label' = label /\ comments' = comments
                ELSE ~label' /\ NoticePosted
          /\ (Strict /\ Cardinality(StatusComments) = 1) =>
                \A i \in {LatestStatusIdx} :
                    IF Decode(comments[i].body).treeHash = getHashTree(head)
                    THEN label' = label /\ comments' = comments
                    ELSE ~label' /\ RewrittenCleared(i) ]_vars

\* simple mode: the label survived the synchronize event of a push that
\* left the tree as the marker records it
C7_Witness ==
    /\ ~Strict /\ cfg.storeTreeHash
    /\ last.op = "sync" /\ last.calls = <<>> /\ last.hasLabel /\ label
    /\ MarkerComments # {} /\ LatestMarkerHash = getHashTree(head)
    /\ head # "c1"

\* C8: scenario A (files a/x.go and b/y.go, alice alone authorized for the
\* first, bob alone for the second, author a third party, pull request just
\* opened): after alice's /lgtm the pending directories are exactly b and
\* the label is absent; after bob's /lgtm that follows, there are none, the
\* verdict of the comment is LGTM and the label has been added.
C8_ScenarioA ==
    /\ scenario = 2 =>
          /\ last.noti # NoNoti /\ last.noti.dirs = <<"b">>
          /\ ~label /\ last.calls = <<"UpdatePRComment">>
    /\ scenario = 3 =>
          /\ last.noti # NoNoti /\ last.noti.dirs = <<>> /\ Persisted.dirs = <<>>
          /\ Persisted.verdict = consentientDesc
          /\ ~last.hasLabel /\ label
          /\ last.calls = <<"UpdatePRComment", "AddLabel">>

\* bob's /lgtm of scenario A has been handled
C8_Witness ==
    scenario = 3 /\ last.op = "approve" /\ last.actor = "bob" /\ label

\* C9: scenario B (after scenario A): bob's /lgtm cancel removes the label,
\* rewrites the status comment with verdict NOT LGTM, moves bob from the
\* consentors to the opponents with flag true, and recomputes the pending
\* directories so that directory b is among them.
C9_ScenarioB ==
    scenario = 4 =>
        /\ last.hasLabel /\ ~label
        /\ last.calls = <<"UpdatePRComment", "RemoveLabel">>
        /\ Persisted.verdict = opposedDesc
        /\ Persisted.opponents = [u \in {"bob"} |-> TRUE]
        /\ Persisted.consentors = [u \in {"alice"} |-> TRUE]
        /\ "b" \in Range(last.noti.dirs) /\ "b" \in Range(Persisted.dirs)

\* bob's /lgtm cancel of scenario B has been handled
C9_Witness ==
    scenario = 4 /\ last.op = "cancel" /\ last.actor = "bob" /\ ~label

\* C10: a strict-mode handler calls AddLabel only when its verdict is true
\* and the label is absent, and RemoveLabel only when its verdict is false
\* and the label is present.
C10_LabelSyncMinimal ==
    (Strict /\ last.op \in {"approve", "cancel", "open", "sync"}) =>
        /\ "AddLabel" \in Range(last.calls) => (last.ok /\ ~last.hasLabel)
        /\ "RemoveLabel" \in Range(last.calls) => (~last.ok /\ last.hasLabel)

\* st is fully reviewed at the head: every changed file has a consentor with
\* flag true among its approvers and reviewers, and no opponent has flag true
FullyReviewed(st) ==
    /\ \A f \in getChangedFiles(head) :
          \E u \in DOMAIN st.consentors :
              st.consentors[u] /\ NormLogin(u) \in AuthorizedFor(f)
    /\ \A u \in DOMAIN st.opponents : ~st.opponents[u]

\* the directories the status comment lists (an empty item is no directory)
ListedDirs == Range(Persisted.dirs) \ {""}

\* the directories of the files at the head that no consentor of st with
\* flag true may review
UncoveredDirs(st) ==
    {IF FilepathDir(f) = "." THEN "root directory" ELSE FilepathDir(f)
     : f \in {g \in getChangedFiles(head) :
                 \A u \in DOMAIN st.consentors :
                     ~(st.consentors[u] /\ NormLogin(u) \in AuthorizedFor(g))}}

\* the last event handled was an approve of an authorized identity that is
\* not the author
AuthorizedApprove ==
    /\ Strict
    /\ last.op = "approve"
    /\ last.actor # prAuthor
    /\ isReviewer(fileReviewers(getChangedFiles(head)), last.actor)

\* C11: in every persisted review state (of the head's tree) the pending
\* directories are empty if and only if the state is fully reviewed.
C11_PendingEmptyIffReviewed ==
    (Strict /\ HasStatus /\ ~Stale) =>
        ((Persisted.dirs = <<>>) <=> FullyReviewed(Persisted))

\* C12 as stated: after an approve of an authorized identity that is not the
\* author, the pending directories are exactly the directories of the
\* changed files that none of the consentors with flag true may review.
C12_AsStated ==
    (AuthorizedApprove /\ HasStatus) => ListedDirs = UncoveredDirs(Persisted)

\* C12, amended: the same for an approve of an identity that was not yet
\* recorded in the consentors (the handler then recomputes and writes).
C12_PendingAfterApprove ==
    (AuthorizedApprove /\ last.noti # NoNoti) =>
        /\ Range(last.noti.dirs) = UncoveredDirs(last.noti)
        /\ Len(last.noti.dirs) = Cardinality(UncoveredDirs(last.noti))
        /\ ListedDirs = UncoveredDirs(Persisted)

\* alice approved first, with b/y.go left for bob
C12_Witness ==
    /\ AuthorizedApprove /\ last.noti # NoNoti
    /\ last.actor = "alice" /\ getHashTree(head) = "T1"
    /\ last.noti.dirs = <<"b">>
    /\ "bob" \notin DOMAIN last.noti.consentors

\* C13: after an approve of an authorized identity that is not the author,
\* the verdict written to the comment and used for the label is true exactly
\* when no directory is pending and no opponent has flag true; the label is
\* never added while the cancel of an authorized reviewer is recorded.
C13_VerdictAfterApprove ==
    AuthorizedApprove =>
        /\ (last.noti # NoNoti) =>
              /\ last.ok = (last.noti.dirs = <<>> /\ \A u \in DOMAIN last.noti.opponents :
                                                        ~last.noti.opponents[u])
              /\ (Persisted.verdict = consentientDesc) = last.ok
              /\ (Persisted.verdict = opposedDesc) = ~last.ok
              /\ label = last.ok
              /\ ("AddLabel" \in Range(last.calls)) = (last.ok /\ ~last.hasLabel)
        /\ (HasStatus /\ \E u \in DOMAIN Persisted.opponents : Persisted.opponents[u]) =>
              ~label /\ "AddLabel" \notin Range(last.calls)

\* alice may review every file of the head, but the cancel of Carol is recorded
C13_Witness ==
    /\ AuthorizedApprove /\ last.noti # NoNoti
    /\ last.noti.dirs = <<>>
    /\ \E u \in DOMAIN last.noti.opponents : last.noti.opponents[u]
    /\ ~last.ok /\ ~label

\* C14: an approve of an identity that is neither the author nor an
\* authorized reviewer, not yet a consentor, handled on a status comment of
\* the head's tree: the identity is recorded in the consentors with flag
\* false, the comment is rewritten, no label call is issued, and the
\* persisted pending directories are as before.
C14_UnauthorizedApprove ==
    [][ ( /\ Strict
          /\ last'.op = "approve"
          /\ last'.actor # prAuthor
          /\ ~isReviewer(fileReviewers(getChangedFiles(head)), last'.actor)
          /\ HasStatus /\ ~Stale )
        => \A i \in {LocatedIdx} :
               \A before \in {Decode(comments[i].body)},
                  after \in {Decode(comments'[i].body)} :
                   last'.actor \notin DOMAIN before.consentors =>
                       /\ last'.actor \in DOMAIN after.consentors
                       /\ ~after.consentors[last'.actor]
                       /\ last'.calls = <<"UpdatePRComment">>
                       /\ label' = label
                       /\ after.dirs = before.dirs ]_vars

\* the last event handled was a cancel of an identity that is neither the
\* author nor an authorized reviewer
UnauthorizedCancel ==
    /\ Strict
    /\ last.op = "cancel"
    /\ last.actor # prAuthor
    /\ ~isReviewer(fileReviewers(getChangedFiles(head)), last.actor)

\* C15: a cancel of an identity that is neither the author nor an
\* authorized reviewer records it in the opponents with flag false and not
\* in the consentors, rewrites the comment and issues no label call; the
\* verdict stays what the label says, and the opponent does not change what
\* canAddLgtmLabel answers.
C15_UnauthorizedCancel ==
    UnauthorizedCancel =>
        /\ last.noti # NoNoti
        /\ last.actor \in DOMAIN last.noti.opponents
        /\ ~last.noti.opponents[last.actor]
        /\ last.actor \notin DOMAIN last.noti.consentors
        /\ \A after \in {Decode(comments[WrittenIdx].body)} :
               /\ last.actor \in DOMAIN after.opponents
               /\ ~after.opponents[last.actor]
               /\ last.actor \notin DOMAIN after.consentors
               /\ (after.verdict = consentientDesc) = last.hasLabel
        /\ last.calls \in {<<"UpdatePRComment">>, <<"CreateComment">>}
        /\ label = last.hasLabel /\ last.ok = last.hasLabel
        /\ canAddLgtmLabel(last.noti)
             = canAddLgtmLabel([last.noti EXCEPT !.opponents = MapDelete(@, last.actor)])

\* an outsider cancelled while the label was present: label and verdict stay
C15_Witness ==
    /\ UnauthorizedCancel /\ last.hasLabel /\ label /\ last.ok
    /\ last.noti # NoNoti /\ last.noti.dirs = <<>>
    /\ prPending = "none"

\* the last event handled was a cancel of the author
AuthorCancel == Strict /\ last.op = "cancel" /\ last.actor = prAuthor

\* C16: a cancel of the author leaves no consentors and no opponents, all
\* the directories of the changed files pending, the comment written with
\* verdict NOT LGTM, and the label removed if it was present.
C16_AuthorCancel ==
    AuthorCancel =>
        /\ last.noti # NoNoti
        /\ last.noti.consentors = EmptyMap /\ last.noti.opponents = EmptyMap
        /\ Range(last.noti.dirs) = DirsOfHead
        /\ Len(last.noti.dirs) = Cardinality(DirsOfHead)
        /\ ~last.ok
        /\ \A after \in {Decode(comments[WrittenIdx].body)} :
               /\ after.verdict = opposedDesc
               /\ after.consentors = EmptyMap /\ after.opponents = EmptyMap
               /\ Range(after.dirs) \ {""} = DirsOfHead
               /\ after.treeHash = getHashTree(head)
        /\ ~label
        /\ ("RemoveLabel" \in Range(last.calls)) = last.hasLabel
        /\ "AddLabel" \notin Range(last.calls)

\* the author cancelled a pull request that carried the label
C16_Witness ==
    AuthorCancel /\ last.hasLabel /\ ~label /\ prPending = "none"

\* C17: a cancel of an authorized reviewer who is not the author records
\* the reviewer in the opponents with flag true, marks the directories of
\* all changed files as pending, keeps the other consentors, writes verdict
\* NOT LGTM and removes the label if it was present.
C17_ReviewerCancel ==
    /\ [] ( ( /\ Strict
              /\ last.op = "cancel"
              /\ last.actor # prAuthor
              /\ isReviewer(fileReviewers(getChangedFiles(head)), last.actor) )
            => /\ last.noti # NoNoti
               /\ last.actor \in DOMAIN last.noti.opponents
               /\ last.noti.opponents[last.actor]
               /\ Range(last.noti.dirs) = DirsOfHead
               /\ Len(last.noti.dirs) = Cardinality(DirsOfHead)
               /\ ~last.ok /\ ~label
               /\ ("RemoveLabel" \in Range(last.calls)) = last.hasLabel
               /\ "AddLabel" \notin Range(last.calls)
               /\ \A now \in {FindStringSubmatch(comments[WrittenIdx].body)} :
                      /\ Text(now[1]) = opposedDesc
                      /\ commentToReviewer(now[3], separator) = last.noti.opponents
                      /\ commentToReviewer(now[2], separator) = last.noti.consentors )
    /\ [][ ( /\ Strict
             /\ last'.op = "cancel"
             /\ last'.actor # prAuthor
             /\ isReviewer(fileReviewers(getChangedFiles(head)), last'.actor) )
           => \A i \in StatusComments :
                  \A before \in {FindStringSubmatch(comments[i].body)} :
                      ( /\ \A j \in StatusComments : i <= j
                        /\ Text(before[5]) = getHashTree(head) )
                      => /\ last'.noti.consentors
                              = MapDelete(commentToReviewer(before[2], separator), last'.actor)
                         /\ last'.noti.opponents
                              = MapPut(commentToReviewer(before[3], separator), last'.actor, TRUE)
         ]_vars

\* bob cancelled while alice was a consentor and the label was present
C17_Witness ==
    /\ Strict /\ last.op = "cancel" /\ last.actor = "bob"
    /\ getHashTree(head) = "T1" /\ last.hasLabel /\ ~label
    /\ last.noti # NoNoti
    /\ "alice" \in DOMAIN last.noti.consentors
    /\ Range(last.noti.dirs) = {"a", "b"}

\* C18: an approve or cancel command that wrote the status comment leaves
\* it such that the next event decodes exactly the state the command ended
\* with: same consentors, opponents, pending directories and fingerprint,
\* read from the comment that was written.
C18_CommentIsSourceOfTruth ==
    (Strict /\ last.op \in {"approve", "cancel"} /\ last.noti # NoNoti) =>
        \A ld \in LoadLGTMnotification(comments, getHashTree(head), getChangedFiles(head)) :
            /\ ~ld.prChanged
            /\ ld.noti.commentID = last.commentID
            /\ ld.noti.consentors = last.noti.consentors
            /\ ld.noti.opponents = last.noti.opponents
            /\ Range(ld.noti.dirs) = Range(last.noti.dirs)
            /\ ld.noti.treeHash = last.noti.treeHash

\* C19: when several comments of the bot match the status template, the
\* state is loaded from, and written back to, the one created last.
C19_LocateLatest ==
    (Strict /\ HasStatus) =>
        /\ \A ld \in LoadLGTMnotification(comments, getHashTree(head), getChangedFiles(head)) :
               ld.noti.commentID = comments[LatestStatusIdx].id
        /\ (last.op \in {"approve", "cancel", "sync"} /\ last.noti # NoNoti) =>
               last.commentID = comments[LatestStatusIdx].id

\* C20: a comment of the bot supplies persisted state only if it was never
\* edited after its creation: the status comment a strict-mode event takes
\* its consentors, opponents, directories and fingerprint from, and the
\* marker comment a simple-mode event takes its tree hash from.
C20_TamperCheck ==
    /\ Strict =>
          \A ld \in LoadLGTMnotification(comments, getHashTree(head), getChangedFiles(head)) :
              ~ld.prChanged =>
                  \A i \in 1..Len(comments) :
                      comments[i].id = ld.noti.commentID => ~comments[i].edited
    /\ (~Strict /\ lastLgtmTreeHash(comments) # "") =>
          \E i \in MarkerComments :
              /\ ~comments[i].edited
              /\ Text(FindTreeHashSubmatch(comments[i].body)[2]) = lastLgtmTreeHash(comments)

----------------------------------------------------------------------------
(* Claims about calls that fail and comments that are no commands.         *)

\* the fetches of a strict-mode event: the commit, the comments, the changed
\* files, the pull request the OWNERS data are loaded for, the labels
Fetches ==
    {"GetSingleCommit", "ListIssueComments", "GetPullRequestChanges",
     "GetPullRequest", "GetIssueLabels"}

\* the last event was handled in strict mode and made the call last.fail,
\* which is a fetch: every event fetches the commit; a synchronize event and
\* a command list the comments; an open event and a command fetch the
\* changed files; a command loads the OWNERS data and the labels
FetchFailed ==
    /\ Strict
    /\ \/ last.fail = "GetSingleCommit" /\ last.op \in {"open", "sync", "approve", "cancel"}
       \/ last.fail = "ListIssueComments" /\ last.op \in {"sync", "approve", "cancel"}
       \/ last.fail = "GetPullRequestChanges" /\ last.op \in {"open", "approve", "cancel"}
       \/ last.fail \in {"GetPullRequest", "GetIssueLabels"} /\ last.op \in {"approve", "cancel"}

CommentWritten ==
    /\ last.noti # NoNoti
    /\ last.calls # <<>>
    /\ last.calls[1] \in {"CreateComment", "UpdatePRComment"}
    /\ last.err \notin {"CreateComment", "UpdatePRComment"}

\* C22: in every strict-mode event, also one in which a write fails, a label
\* add or remove is issued only after the write of the status comment of
\* that event has succeeded, and the event does not end with the presence of
\* the label disagreeing with the verdict of the status comment it wrote.
C22_LabelAfterComment ==
    (Strict /\ last.op \in {"open", "sync", "approve", "cancel"}) =>
        /\ \A i \in 1..Len(last.calls) :
               last.calls[i] \in {"AddLabel", "RemoveLabel"} => (i = 2 /\ CommentWritten)
        /\ CommentWritten => (label = last.ok)

\* the bodies of NoteBodies in which no line is /lgtm, /lgtm no-issue or
\* /lgtm cancel (in any case, blanks after it)
NoCommandBodies ==
    { << <<"lgtm">> >>,
      << <<"/lgtm", " ", "please">> >>,
      << <<"not", " ", "/lgtm">> >>,
      << <<"/lgtm", "TAB", "cancel">> >>,
      << >> }

\* C23: a comment event whose body matches neither the approve pattern nor
\* the cancel pattern issues no call that changes anything: no comment is
\* created, updated or deleted, no label added or removed, and the persisted
\* review state stays as it is.
C23_NoCommandNoChange ==
    /\ [] (last.op = "note" => (last.calls = <<>> /\ last.err = ""))
    /\ [][ ( /\ last'.actor \in FaultLogins
             /\ \E comment \in NoCommandBodies : NoteEvent(last'.actor, comment) )
           => ( /\ comments' = comments
                /\ label' = label
                /\ last'.op = "note"
                /\ last'.calls = <<>> ) ]_vars

\* a comment that is no command was made on a labelled pull request
C23_Witness ==
    Strict /\ last.op = "note" /\ last.actor = "bob" /\ label /\ HasStatus

\* C24: when the tree hash of the head commit cannot be obtained (the fetch
\* fails, or the commit comes without its tree), a synchronize event on a
\* labelled pull request goes on as if the tree had changed: it ends with the
\* label removed.
C24_NoFingerprintRemovesLabel ==
    (last.op = "sync" /\ last.fail = "GetSingleCommit" /\ last.hasLabel) => ~label

\* the author of the pull request is a member of the configured trusted team
AuthorTrusted ==
    cfg.stickyLgtmTeam # "" /\ prAuthor \in OrgTeamMembers(cfg.stickyLgtmTeam)

\* C29: in simple mode a synchronize event on a pull request whose author is
\* a member of the configured trusted team never removes the label and never
\* posts the notice, whatever the tree hashes are; with no trusted team, or
\* an author who is not a member, the label stays exactly when the tree hash
\* of the head is the one the last marker comment records.
C29_StickyTrust ==
    (~Strict /\ last.op = "sync" /\ last.fail = "none") =>
        /\ AuthorTrusted => (label = last.hasLabel /\ last.calls = <<>>)
        /\ (~AuthorTrusted /\ last.hasLabel) =>
              label = ( /\ cfg.storeTreeHash
                        /\ lastLgtmTreeHash(comments) # ""
                        /\ lastLgtmTreeHash(comments) = getHashTree(head) )

\* the last handler wrote its notification into a new comment
StatusCreated ==
    /\ last.noti # NoNoti
    /\ last.calls # <<>>
    /\ last.calls[1] = "CreateComment"

\* C25: with events handled one at a time, in any delivery order, the pull
\* request has at most one bot comment that matches the status template, and
\* a handler creates a status comment only when there was none.
C25_SingleStatusComment ==
    Strict =>
        /\ Cardinality(StatusComments) <= 1
        /\ StatusCreated => StatusComments = {WrittenIdx}

\* the last event was a command handled in simple mode
SimpleCommand == ~Strict /\ last.op \in {"approve", "cancel"}

\* the actor of the last command was not permitted to change the label
Denied ==
    \/ last.actor = prAuthor /\ last.op = "approve"
    \/ /\ last.actor # prAuthor
       /\ ~cfg.skipCollaborators
       /\ last.actor \notin Collaborators
    \/ /\ last.actor # prAuthor
       /\ cfg.skipCollaborators
       /\ NormLogin(last.actor) \notin loadReviewers(getChangedFiles(head))

\* C27: in simple mode a command of an actor who is not permitted to change
\* the label (the author approving, a non-collaborator when collaborators
\* are checked, an actor outside the OWNERS of the changed files when they
\* are skipped) leaves the label alone, posts exactly one comment and
\* returns no error; a permitted actor's command adds the label only when
\* it is absent and removes it only when it is present.
C27_SimpleDenial ==
    SimpleCommand =>
        /\ Denied => /\ last.calls = <<"CreateComment">>
                     /\ label = last.hasLabel
                     /\ last.err = ""
        /\ ~Denied => /\ "AddLabel" \in Range(last.calls)
                            => (~last.hasLabel /\ last.op = "approve" /\ label)
                      /\ "RemoveLabel" \in Range(last.calls)
                            => (last.hasLabel /\ last.op = "cancel" /\ ~label)
                      /\ label # last.hasLabel
                            => Range(last.calls) \cap {"AddLabel", "RemoveLabel"} # {}

\* bob, who is in no OWNERS file of the changed files at T2, cancels on a
\* labelled pull request and is refused
C27_Witness ==
    /\ SimpleCommand /\ Denied
    /\ cfg.skipCollaborators
    /\ last.actor = "bob" /\ last.op = "cancel"
    /\ last.hasLabel /\ label
    /\ last.calls = <<"CreateComment">>

----------------------------------------------------------------------------
(* isReviewer as a function of its inputs, in the two forms the sources    *)
(* hold: with github.NormLogin and with the robot's own normalizeLogin.    *)

\* normalizeLogin of the robot's client
normalizeLogin(s) == ""

\* isReviewer of the strict review that normalizes with normalizeLogin
isReviewer_normalizeLogin(validReviewers, commenter) ==
    \E f \in DOMAIN validReviewers : normalizeLogin(commenter) \in validReviewers[f]

\* which of the two isReviewer functions is linked in
Normalizers == {"github.NormLogin", "normalizeLogin"}

\* the changed files of the pull request the function is asked about
AuthFiles == {FileAX, FileBY, FileReadme}

\* the inputs of one call: the commenter, the changed files, the normalizer
InitAuth ==
    /\ cfg \in {c \in Configs : c.strictReview}
    /\ prAuthor \in PRAuthors
    /\ head = "c1"
    /\ label = FALSE
    /\ comments = <<>>
    /\ prPending = "none"
    /\ inOrder = TRUE
    /\ scenario = -1
    /\ inFlight = <<>>
    /\ twin = <<>>
    /\ \E commenter \in Logins, filenames \in SUBSET AuthFiles, norm \in Normalizers :
          last = [op |-> "none", actor |-> commenter, filenames |-> filenames,
                  norm |-> norm, ok |-> FALSE,
                  noti |-> Notification(EmptyMap, EmptyMap, <<>>, "", 0)]

\* isReviewer is applied to the reviewers of the changed files
CheckReviewer ==
    /\ last.op = "none"
    /\ last' = [last EXCEPT
                   !.op = "isReviewer",
                   !.ok = IF last.norm = "normalizeLogin"
                          THEN isReviewer_normalizeLogin(fileReviewers(last.filenames),
                                                         last.actor)
                          ELSE isReviewer(fileReviewers(last.filenames), last.actor)]
    /\ UNCHANGED <<cfg, prAuthor, head, label, comments, prPending, inOrder, scenario, inFlight, twin>>

\* handleLGTM / handleLGTMCancel record the commenter with the flag
RecordReviewer(wantLGTM) ==
    /\ last.op = "isReviewer"
    /\ last.actor # prAuthor
    /\ last' = [last EXCEPT
                   !.op = IF wantLGTM THEN "approve" ELSE "cancel",
                   !.noti = IF wantLGTM THEN AddConsentor(@, last.actor, last.ok)
                            ELSE AddOpponent(@, last.actor, last.ok)]
    /\ UNCHANGED <<cfg, prAuthor, head, label, comments, prPending, inOrder, scenario, inFlight, twin>>

NextAuth ==
    \/ CheckReviewer
    \/ \E wantLGTM \in BOOLEAN : RecordReviewer(wantLGTM)

SpecAuth == InitAuth /\ [][NextAuth]_vars

\* the commenter is listed as approver or reviewer of a changed file
ListedForSomeFile ==
    NormLogin(last.actor) \in UNION {Approvers(f) \cup Reviewers(f) : f \in last.filenames}

\* C28: a commenter is an authorized reviewer exactly when the normalized
\* login is in the union, over the changed files, of the approvers and
\* reviewers of the file; an identity listed for a changed file is recorded
\* with flag true when it approves or cancels, one listed for none with
\* flag false.
C28_ActorAuthorization ==
    /\ last.op \in {"isReviewer", "approve", "cancel"} => (last.ok = ListedForSomeFile)
    /\ last.op = "approve" => (last.noti.consentors[last.actor] = ListedForSomeFile)
    /\ last.op = "cancel" => (last.noti.opponents[last.actor] = ListedForSomeFile)

\* the head moved to another tree while the label was present, the
\* synchronize event is still to be handled, and the one event handled since
\* is a command of an actor who is no reviewer of the changed files
UnauthorizedBeforeSync ==
    /\ Strict
    /\ prPending = "sync"
    /\ last.op \in {"approve", "cancel"}
    /\ last.actor # prAuthor
    /\ last.prChanged
    /\ last.hasLabel
    /\ ~isReviewer(fileReviewers(getChangedFiles(head)), last.actor)

\* C30: when the head tree changes while the label is present, the label is
\* absent once the synchronize event for the new tree has been handled, also
\* when a command of an actor who is not an authorized reviewer was handled
\* after the change and before that event.
C30_InvalidationSurvivesReordering ==
    [][ (UnauthorizedBeforeSync /\ last'.op = "sync") => ~label' ]_vars

----------------------------------------------------------------------------
(* Two command handlers of strict mode that run at the same time.  Each    *)
(* call of a handler to the forge is one step: it lists the comments, then  *)
(* reads the labels, then writes the comment, then changes the label.      *)

Handlers == {1, 2}
RaceLogins == {"alice", "bob"}

\* a handler that has been handed its comment event
Started(commenter, wantLGTM) ==
    [pc |-> "comments", commenter |-> commenter, wantLGTM |-> wantLGTM,
     cs |-> <<>>, plan |-> <<>>, body |-> <<>>, commentID |-> 0]

\* the body the handler has decided to write
PlannedBody(w) ==
    IF w.calls = <<>> THEN <<>>
    ELSE IF w.calls[1] = "CreateComment" THEN w.comments[Len(w.comments)].body
    ELSE (CHOOSE c \in Range(w.comments) : c.id = w.commentID).body

InitRace == Init /\ Strict

\* events handled one at a time, while no two handlers run together
SerialPREvent == inFlight = <<>> /\ StrictPREvent

SerialComment(commenter, wantLGTM) == inFlight = <<>> /\ StrictComment(commenter, wantLGTM)

\* two comment events arrive and a handler starts for each
StartRace(c1, want1, c2, want2) ==
    /\ inFlight = <<>>
    /\ prPending = "none"
    /\ inFlight' = <<Started(c1, want1), Started(c2, want2)>>
    /\ UNCHANGED <<cfg, prAuthor, head, label, comments, prPending, inOrder, last, scenario, twin>>

\* LoadLGTMnotification lists the comments
ReadComments(h) ==
    /\ inFlight # <<>>
    /\ inFlight[h].pc = "comments"
    /\ inFlight' = [inFlight EXCEPT ![h].pc = "labels", ![h].cs = comments]
    /\ UNCHANGED <<cfg, prAuthor, head, label, comments, prPending, inOrder, last, scenario, twin>>

\* hasLGTMLabel reads the labels; what the handler will write is now decided
ReadLabels(h) ==
    /\ inFlight # <<>>
    /\ inFlight[h].pc = "labels"
    /\ \E w \in HandleStrictLGTMComment(World(inFlight[h].cs, label), head, prAuthor,
                                        inFlight[h].commenter, inFlight[h].wantLGTM) :
          /\ Bounded(w)
          /\ inFlight' = [inFlight EXCEPT
                             ![h].pc = IF w.calls = <<>> THEN "done" ELSE "write",
                             ![h].cs = <<>>,
                             ![h].plan = w.calls,
                             ![h].body = PlannedBody(w),
                             ![h].commentID = w.commentID]
    /\ UNCHANGED <<cfg, prAuthor, head, label, comments, prPending, inOrder, last, scenario, twin>>

\* the next call of the handler reaches the forge
WriteCall(h) ==
    /\ inFlight # <<>>
    /\ inFlight[h].pc = "write"
    /\ LET call == inFlight[h].plan[1]
           w == World(comments, label)
           w1 == IF call = "CreateComment" THEN CreateComment(w, inFlight[h].body)
                 ELSE IF call = "UpdatePRComment"
                 THEN UpdatePRComment(w, inFlight[h].commentID, inFlight[h].body)
                 ELSE IF call = "AddLabel" THEN AddLabel(w)
                 ELSE RemoveLabel(w)
       IN  /\ Len(w1.comments) <= MaxComments
           /\ comments' = w1.comments
           /\ label' = w1.label
    /\ inFlight' = [inFlight EXCEPT
                       ![h].plan = Tail(@),
                       ![h].pc = IF Len(inFlight[h].plan) = 1 THEN "done" ELSE "write"]
    /\ UNCHANGED <<cfg, prAuthor, head, prPending, inOrder, last, scenario, twin>>

NextRace ==
    \/ SerialPREvent
    \/ \E u \in RaceLogins, wantLGTM \in BOOLEAN : SerialComment(u, wantLGTM)
    \/ \E c1 \in RaceLogins, c2 \in RaceLogins, want1 \in BOOLEAN, want2 \in BOOLEAN :
          StartRace(c1, want1, c2, want2)
    \/ \E h \in Handlers : ReadComments(h)
    \/ \E h \in Handlers : ReadLabels(h)
    \/ \E h \in Handlers : WriteCall(h)

SpecRace == InitRace /\ [][NextRace]_vars

\* both handlers have returned
RaceDone == inFlight # <<>> /\ \A h \in Handlers : inFlight[h].pc = "done"

\* C26: for any interleaving of two strict-mode command handlers on the same
\* pull request, once both have completed the label is present only if the
\* surviving status comment records the verdict LGTM and no opponent with
\* flag true.
C26_RaceTolerance ==
    (RaceDone /\ label) =>
        /\ HasStatus
        /\ Persisted.verdict = consentientDesc
        /\ \A u \in DOMAIN Persisted.opponents : ~Persisted.opponents[u]

----------------------------------------------------------------------------
(* Claims about redelivery, completeness and the order of events.          *)

\* the last event was an approve of an authorized reviewer that wrote the
\* status comment with the verdict LGTM and whose AddLabel call failed
ApproveLostLabel ==
    /\ Strict
    /\ last.op = "approve"
    /\ last.actor # prAuthor
    /\ isReviewer(fileReviewers(getChangedFiles(head)), last.actor)
    /\ last.noti # NoNoti
    /\ last.ok
    /\ last.calls # <<>>
    /\ last.calls[1] \in {"CreateComment", "UpdatePRComment"}
    /\ last.err = "AddLabel"

\* C31: when an authorized approve wrote the status comment with the verdict
\* LGTM and its AddLabel call failed, handling the same approve event again,
\* with no event in between and no further failure, ends with the label
\* present.
C31_RedeliveryConverges ==
    [][ ( /\ ApproveLostLabel
          /\ last'.op = "approve"
          /\ last'.actor = last.actor
          /\ last'.fail = "none" )
        => label' ]_vars

----------------------------------------------------------------------------
(* Strict mode with every kind of pull request event of an open pull       *)
(* request: opened, synchronize, edited (target branch changed), labeled.  *)

\* convertPullRequestAction: the actions besides opened and synchronize
OtherActions == {"edited", "labeled"}

\* the pull request may be opened on any commit
InitPREvents ==
    /\ cfg \in {c \in Configs : c.strictReview}
    /\ prAuthor \in PRAuthors
    /\ head \in Commits
    /\ label = FALSE
    /\ comments = <<>>
    /\ prPending = "open"
    /\ inOrder = TRUE
    /\ last = Last("none", "", FALSE, World(<<>>, FALSE))
    /\ scenario = -1
    /\ inFlight = <<>>
    /\ twin = <<>>

\* a pull request event that is neither opened nor synchronize is handled
OtherPREvent(action) ==
    /\ Strict
    /\ \E w \in HandleStrictLGTMPREvent(World(comments, label), head, action) :
          /\ comments' = w.comments
          /\ label' = w.label
          /\ last' = Last(action, "", label, w)
    /\ UNCHANGED <<cfg, prAuthor, head, prPending, inOrder, scenario, inFlight, twin>>

NextPREvents ==
    \/ \E c \in Commits : Push(c)
    \/ StrictPREvent
    \/ \E u \in RaceLogins, wantLGTM \in BOOLEAN : StrictComment(u, wantLGTM)
    \/ \E action \in OtherActions : OtherPREvent(action)

SpecPREvents == InitPREvents /\ [][NextPREvents]_vars

\* the directories of the changed files of the head, the root as its sentinel
DirsOfChangedFiles ==
    {IF Len(f) = 1 THEN "root directory" ELSE f[1] : f \in getChangedFiles(head)}

\* C35: the opened event of strict mode creates a new status comment with
\* the verdict NOT LGTM, no consentor and no opponent, the directories of
\* all changed files as pending (files at the root as 'root directory',
\* each directory once) and the tree hash of the head, and makes no label
\* call; pull request events other than opened and synchronize write nothing.
C35_OpenedEvent ==
    /\ (Strict /\ last.op = "open") =>
          /\ last.calls = <<"CreateComment">>
          /\ label = last.hasLabel
          /\ last.noti # NoNoti
          /\ ~last.ok
          /\ last.noti.consentors = EmptyMap
          /\ last.noti.opponents = EmptyMap
          /\ Range(last.noti.dirs) = DirsOfChangedFiles
          /\ Len(last.noti.dirs) = Cardinality(DirsOfChangedFiles)
          /\ last.noti.treeHash = getHashTree(head)
          /\ WrittenIdx = Len(comments)
          /\ \A m \in {FindStringSubmatch(comments[WrittenIdx].body)} :
                /\ m # <<>>
                /\ Text(m[1]) = opposedDesc
                /\ m[2] = <<>>
                /\ m[3] = <<>>
                /\ Text(m[5]) = getHashTree(head)
    /\ (Strict /\ last.op \in OtherActions) =>
          (last.calls = <<>> /\ last.err = "" /\ label = last.hasLabel)

\* a pull request opened on c2, which changes a file at the root
C35_Witness ==
    /\ Strict
    /\ last.op = "open"
    /\ head = "c2"
    /\ "root directory" \in Range(last.noti.dirs)
    /\ last.calls = <<"CreateComment">>

\* strict mode on a head that never changes: the opened event and the
\* commands of every login, handled one at a time, without failures
NextSerial ==
    \/ StrictPREvent
    \/ \E u \in Logins, wantLGTM \in BOOLEAN : StrictComment(u, wantLGTM)

SpecSerial == InitPREvents /\ [][NextSerial]_vars

\* C32: strict mode, no failures, events handled one at a time: after an
\* approve or cancel event, if the persisted state records an authorized
\* consentor for every changed file and no opponent with flag true, the label
\* is present and the verdict of the comment is LGTM; an authorized reviewer
\* who approves (again, after a cancel) is recorded as consentor only.
C32_Completeness ==
    (Strict /\ last.op \in {"approve", "cancel"} /\ HasStatus) =>
        /\ FullyReviewed(Persisted) =>
              (label /\ Persisted.verdict = consentientDesc)
        /\ (AuthorizedApprove /\ last.noti # NoNoti) =>
              /\ last.actor \in DOMAIN Persisted.consentors
              /\ last.actor \notin DOMAIN Persisted.opponents

\* carol approves after her cancel had removed the label (alice, who covers
\* a/x.go, had approved before): the files of T2 are covered and the label
\* is back
C32_Witness ==
    /\ AuthorizedApprove
    /\ last.actor = "Carol"
    /\ head = "c2"
    /\ last.calls = <<"UpdatePRComment", "AddLabel">>
    /\ HasStatus
    /\ FullyReviewed(Persisted)
    /\ DOMAIN Persisted.opponents = {}
    /\ label

----------------------------------------------------------------------------
(* Two runs side by side.  The first run is the pull request of the state  *)
(* machine; twin holds the comments and the label of the second run.       *)

\* the review state a handler would load from the comments cs, with the label
ReviewState(cs, lb) ==
    LET idx == {i \in 1..Len(cs) :
                   cs[i].user = BotLogin /\ FindStringSubmatch(cs[i].body) # <<>>}
    IN  IF idx = {} THEN [none |-> TRUE, label |-> lb]
        ELSE LET st == Decode(cs[CHOOSE i \in idx : \A j \in idx : i <= j].body)
             IN  [consentors |-> st.consentors,
                  opponents |-> st.opponents,
                  dirs |-> Range(st.dirs) \ {""},
                  verdict |-> st.verdict,
                  label |-> lb]

\* the reviewers of the files of the head who are not the author
AuthorizedLogins ==
    {u \in Logins : u # prAuthor /\ isReviewer(fileReviewers(getChangedFiles(head)), u)}

\* the first run handles the approve of u, the second run that of v
FirstApprove(u, v) ==
    /\ Strict
    /\ twin = <<>>
    /\ u # v
    /\ \E w \in HandleStrictLGTMComment(World(comments, label), head, prAuthor, u, TRUE),
          x \in HandleStrictLGTMComment(World(comments, label), head, prAuthor, v, TRUE) :
          /\ Bounded(w)
          /\ Bounded(x)
          /\ comments' = w.comments
          /\ label' = w.label
          /\ last' = Last("approve", u, label, w)
          /\ twin' = [phase |-> "first", first |-> u, second |-> v,
                      comments |-> x.comments, label |-> x.label]
    /\ UNCHANGED <<cfg, prAuthor, head, prPending, inOrder, scenario, inFlight>>

\* the first run handles the approve of v, the second run that of u
SecondApprove ==
    /\ twin # <<>>
    /\ twin.phase = "first"
    /\ \E w \in HandleStrictLGTMComment(World(comments, label), head, prAuthor,
                                        twin.second, TRUE),
          x \in HandleStrictLGTMComment(World(twin.comments, twin.label), head, prAuthor,
                                        twin.first, TRUE) :
          /\ Bounded(w)
          /\ Bounded(x)
          /\ comments' = w.comments
          /\ label' = w.label
          /\ last' = Last("approve", twin.second, label, w)
          /\ twin' = [twin EXCEPT !.phase = "second",
                                  !.comments = x.comments, !.label = x.label]
    /\ UNCHANGED <<cfg, prAuthor, head, prPending, inOrder, scenario, inFlight>>

NextCommute ==
    \/ twin = <<>> /\ StrictPREvent
    \/ \E u \in Logins, wantLGTM \in BOOLEAN : twin = <<>> /\ StrictComment(u, wantLGTM)
    \/ \E u \in AuthorizedLogins, v \in AuthorizedLogins : FirstApprove(u, v)
    \/ SecondApprove

SpecCommute == InitPREvents /\ [][NextCommute]_vars

\* both runs have handled both approves
BothApproved == twin # <<>> /\ twin.phase = "second"

\* C34: for two distinct authorized identities u and v that are not the
\* author, and any starting state on an unchanged head, handling the approve
\* of u and then that of v ends with the same consentors, opponents, set of
\* pending directories, verdict and label presence as handling that of v and
\* then that of u.
C34_ApprovalsCommute ==
    BothApproved => ReviewState(comments, label) = ReviewState(twin.comments, twin.label)

\* alice then carol against carol then alice on T2, from a state in which
\* carol was an opponent: both runs end with the label
C34_Witness ==
    /\ BothApproved
    /\ head = "c2"
    /\ twin.first = "alice"
    /\ twin.second = "Carol"
    /\ last.calls = <<"UpdatePRComment", "AddLabel">>
    /\ label
    /\ twin.label

----------------------------------------------------------------------------
(* Two runs that get the same events in delivery order, but for commands   *)
(* of logins without authority that only the first run gets.  The approve  *)
(* of the author, which is answered with a reply only, is not delivered.   *)

InitInsert ==
    /\ cfg \in {c \in Configs : c.strictReview}
    /\ prAuthor \in PRAuthors
    /\ head = "c1"
    /\ label = FALSE
    /\ comments = <<>>
    /\ prPending = "open"
    /\ inOrder = TRUE
    /\ last = Last("none", "", FALSE, World(<<>>, FALSE))
    /\ scenario = -1
    /\ inFlight = <<>>
    /\ twin = [comments |-> <<>>, label |-> FALSE]

\* both runs handle the pending pull request event
BothPREvent ==
    /\ Strict
    /\ prPending # "none"
    /\ \E w \in HandleStrictLGTMPREvent(World(comments, label), head, prPending),
          x \in HandleStrictLGTMPREvent(World(twin.comments, twin.label), head, prPending) :
          /\ Bounded(w)
          /\ Bounded(x)
          /\ comments' = w.comments
          /\ label' = w.label
          /\ last' = Last(prPending, "", label, w)
          /\ twin' = [comments |-> x.comments, label |-> x.label]
    /\ prPending' = "none"
    /\ UNCHANGED <<cfg, prAuthor, head, inOrder, scenario, inFlight>>

\* both runs handle the same command
BothComment(commenter, wantLGTM) ==
    /\ Strict
    /\ prPending = "none"
    /\ \E w \in HandleStrictLGTMComment(World(comments, label), head, prAuthor,
                                        commenter, wantLGTM),
          x \in HandleStrictLGTMComment(World(twin.comments, twin.label), head, prAuthor,
                                        commenter, wantLGTM) :
          /\ Bounded(w)
          /\ Bounded(x)
          /\ comments' = w.comments
          /\ label' = w.label
          /\ last' = Last(IF wantLGTM THEN "approve" ELSE "cancel", commenter, label, w)
          /\ twin' = [comments |-> x.comments, label |-> x.label]
    /\ UNCHANGED <<cfg, prAuthor, head, prPending, inOrder, scenario, inFlight>>

\* the first run alone handles a command of a login that is neither the
\* author nor a reviewer of the changed files
InsertedComment(commenter, wantLGTM) ==
    /\ Strict
    /\ prPending = "none"
    /\ commenter # prAuthor
    /\ commenter \notin AuthorizedLogins
    /\ \E w \in HandleStrictLGTMComment(World(comments, label), head, prAuthor,
                                        commenter, wantLGTM) :
          /\ Bounded(w)
          /\ comments' = w.comments
          /\ label' = w.label
          /\ last' = Last(IF wantLGTM THEN "insert approve" ELSE "insert cancel",
                          commenter, label, w)
    /\ UNCHANGED <<cfg, prAuthor, head, prPending, inOrder, scenario, inFlight, twin>>

NextInsert ==
    \/ \E c \in {"c1", "c2"} : Push(c)
    \/ BothPREvent
    \/ \E u \in Logins, wantLGTM \in BOOLEAN :
          (u = prAuthor => ~wantLGTM) /\ BothComment(u, wantLGTM)
    \/ \E u \in Logins, wantLGTM \in BOOLEAN : InsertedComment(u, wantLGTM)

SpecInsert == InitInsert /\ [][NextInsert]_vars

\* what the claim compares: the label, the consentors and opponents with
\* flag true, and the set of pending directories
Authority(cs, lb) ==
    LET idx == {i \in 1..Len(cs) :
                   cs[i].user = BotLogin /\ FindStringSubmatch(cs[i].body) # <<>>}
    IN  IF idx = {} THEN [none |-> TRUE, label |-> lb]
        ELSE LET st == Decode(cs[CHOOSE i \in idx : \A j \in idx : i <= j].body)
             IN  [consentors |-> {u \in DOMAIN st.consentors : st.consentors[u]},
                  opponents |-> {u \in DOMAIN st.opponents : st.opponents[u]},
                  dirs |-> Range(st.dirs),
                  label |-> lb]

\* C33: two strict-mode runs handled sequentially in delivery order that
\* differ only by inserted approve and cancel events of actors who are
\* neither the author nor authorized reviewers end with the same label
\* presence, the same consentors and opponents with flag true, and the same
\* set of pending directories.
C33_NonInterference ==
    Authority(comments, label) = Authority(twin.comments, twin.label)

\* carol, without authority on T1, had a command handled in the first run
\* only; bob's approve then adds the label in both runs
C33_Witness ==
    /\ Strict
    /\ head = "c1"
    /\ last.op = "approve"
    /\ last.actor = "bob"
    /\ last.calls = <<"UpdatePRComment", "AddLabel">>
    /\ label
    /\ twin.label
    /\ HasStatus
    /\ "Carol" \in DOMAIN Persisted.consentors \cup DOMAIN Persisted.opponents
    /\ comments # twin.comments

====
